---- MODULE Spec2Model ----
(***************************************************************************)
(* Verification model of the Unreal Log Viewer ingestion core:             *)
(*   - the view synchronizer   (src/src/UnrealLogViewerProvider.ts)        *)
(*   - the filter predicate    (src/src/logFilter.ts)                      *)
(*   - the frame decoder       (src/unnamed/part_016, LogServerManager)    *)
(*                                                                         *)
(* JavaScript strings are modelled as sequences of one-character strings,  *)
(* so that trim / split / toUpperCase / includes are computed as the code  *)
(* computes them.  A timestamp string is modelled by the millisecond value *)
(* that `new Date(...).getTime()` yields for it.                           *)
(***************************************************************************)
EXTENDS Integers, Sequences, FiniteSets, TLC

VARIABLES
    \* ---- UnrealLogViewerProvider fields --------------------------------
    logs,                       \* this.logs
    levelFilter,                \* this.levelFilter
    categoryFilter,             \* this.categoryFilter
    messageFilter,              \* this.messageFilter
    lastClearTime,              \* this.lastClearTime (ms)
    isPaused,                   \* this.isPaused
    lastShownCountWhenPaused,   \* this._lastShownCountWhenPaused
    displayedLogsOnPause,       \* this.displayedLogsOnPause
    view,                       \* this._view is set
    useRelativeTimestamps,      \* this._useRelativeTimestamps
    \* ---- environment ----------------------------------------------------
    maxLogsSetting,             \* configuration unrealLogViewer.maxLogMessages
    now,                        \* wall clock (ms) read by `new Date()`
    sent,                       \* messages posted to the webview by the last handler
    lastOp,                     \* the handler that ran last, with its inputs
    pauseIngested,              \* records ingested during the latest pause
    pauseKept,                  \* those of them that no clear or eviction has removed since
    steps,                      \* how many ingestions / control operations the run may still take,
                                \* and how many times togglePauseState has run
    textDocument,               \* the content of the virtual log document, as last provided
    \* ---- LogServerManager socket data handler ---------------------------
    stream,                     \* bytes the client has still to send
    buffer,                     \* the connection's `buffer` string
    added,                      \* frames parsed and handed to addLogCallback, in order
    invalid,                    \* frames reported as "Invalid JSON", in order
    segments,                   \* the segments the client's byte stream is made of
    \* ---- passesLogFilters applied to one record --------------------------
    fLog,                       \* the record (argument `log`)
    fTerms,                     \* per field, the terms the filter string is made of
    fDone,                      \* passesLogFilters has returned
    fPasses,                    \* the value it returned
    \* ---- DateFormatter.formatDate applied to one timestamp --------------
    fmtDate,                    \* the record's timestamp (ms)
    fmtClear,                   \* this.lastClearTime (ms)
    fmtDone,                    \* formatDate has returned
    fmtText,                    \* the string it returned
    \* ---- LogServerManager -----------------------------------------------
    server,                     \* this.server: 0 for undefined, else the instance's number
    currentPort,                \* this.currentPort: 0 for undefined
    isServerRestarting,         \* this.isServerRestarting
    activeConnections,          \* this.activeConnections: numbers of the tracked sockets
    instances,                  \* every net.Server created so far, with its state
    sockets,                    \* every accepted socket, with its closure's `buffer`
    srvOp,                      \* the manager's step that ran last, with its outcome
    srvSteps,                   \* how many calls / connections / chunks the run may still take
    \* ---- PauseManager ---------------------------------------------------
    pmIsPaused,                 \* this._isPaused
    pmDisplayedLogsOnPause,     \* this._displayedLogsOnPause
    pmLastShownCountWhenPaused, \* this._lastShownCountWhenPaused
    pmOp,                       \* the method that ran last, with its inputs
    pmSteps                     \* calls the run may still take, and capture calls made so far

vars == <<logs, levelFilter, categoryFilter, messageFilter, lastClearTime,
          isPaused, lastShownCountWhenPaused, displayedLogsOnPause, view,
          useRelativeTimestamps, maxLogsSetting, now, sent, lastOp,
          pauseIngested, pauseKept, steps, textDocument,
          stream, buffer, added, invalid, segments,
          fLog, fTerms, fDone, fPasses,
          fmtDate, fmtClear, fmtDone, fmtText,
          server, currentPort, isServerRestarting, activeConnections, instances,
          sockets, srvOp, srvSteps,
          pmIsPaused, pmDisplayedLogsOnPause, pmLastShownCountWhenPaused, pmOp,
          pmSteps>>

viewerVars == <<logs, levelFilter, categoryFilter, messageFilter, lastClearTime,
                isPaused, lastShownCountWhenPaused, displayedLogsOnPause, view,
                useRelativeTimestamps, maxLogsSetting, now, sent, lastOp,
                pauseIngested, pauseKept, steps, textDocument>>

decoderVars == <<stream, buffer, added, invalid, segments>>

filterVars == <<fLog, fTerms, fDone, fPasses>>

formatVars == <<fmtDate, fmtClear, fmtDone, fmtText>>

serverVars == <<server, currentPort, isServerRestarting, activeConnections, instances,
                sockets, srvOp, srvSteps>>

pauseVars == <<pmIsPaused, pmDisplayedLogsOnPause, pmLastShownCountWhenPaused, pmOp,
               pmSteps>>

(***************************************************************************)
(* Bounds of the model.                                                    *)
(***************************************************************************)
MaxIngest == 3          \* records ingested in one behaviour
MaxOps    == 3          \* control operations (toggle, clear, filter, ...) in one behaviour
MaxCapacityOps == 2     \* control operations in one behaviour that starts near capacity
MaxSegments == 3        \* frames, separators and fragments in one byte stream
MaxTerms == 2           \* terms in one filter string

\* JavaScript `undefined`, where a string is expected (no string has this shape) ...
Undefined == <<"undefined">>

\* ... and where a count is expected (no count is negative)
UndefinedCount == -1

(***************************************************************************)
(* String primitives of JavaScript, over sequences of characters.          *)
(***************************************************************************)
LowerChars == <<"a","b","c","d","e","f","g","h","i","j","k","l","m",
                "n","o","p","q","r","s","t","u","v","w","x","y","z">>
UpperChars == <<"A","B","C","D","E","F","G","H","I","J","K","L","M",
                "N","O","P","Q","R","S","T","U","V","W","X","Y","Z">>

UpperChar(c) ==
    IF \E i \in 1..26 : LowerChars[i] = c
    THEN UpperChars[CHOOSE i \in 1..26 : LowerChars[i] = c]
    ELSE c

\* s.toUpperCase()
toUpperCase(s) == [i \in 1..Len(s) |-> UpperChar(s[i])]

IsSpace(c) == c \in {" ", "\n", "\t", "\r"}

RECURSIVE trimStart(_)
trimStart(s) == IF s # <<>> /\ IsSpace(Head(s)) THEN trimStart(Tail(s)) ELSE s

RECURSIVE trimEnd(_)
trimEnd(s) ==
    IF s # <<>> /\ IsSpace(s[Len(s)]) THEN trimEnd(SubSeq(s, 1, Len(s) - 1)) ELSE s

\* s.trim()
trim(s) == trimEnd(trimStart(s))

\* s.split(sep) for a one-character separator
RECURSIVE splitAcc(_, _, _)
splitAcc(s, sep, cur) ==
    IF s = <<>> THEN <<cur>>
    ELSE IF Head(s) = sep THEN <<cur>> \o splitAcc(Tail(s), sep, <<>>)
    ELSE splitAcc(Tail(s), sep, Append(cur, Head(s)))

split(s, sep) == splitAcc(s, sep, <<>>)

\* s.startsWith(c) for a one-character prefix
startsWith(s, c) == s # <<>> /\ Head(s) = c

\* s.substring(1)
substring1(s) == IF s = <<>> THEN <<>> ELSE Tail(s)

\* s.includes(t)
includes(s, t) ==
    \E i \in 1..(Len(s) - Len(t) + 1) : SubSeq(s, i, i + Len(t) - 1) = t

\* array.map(f) and array.filter(p) keep the order of the array
RECURSIVE MapTrim(_)
MapTrim(terms) ==
    IF terms = <<>> THEN <<>> ELSE <<trim(Head(terms))>> \o MapTrim(Tail(terms))

NonEmpty(t) == t # <<>>
IsExclusive(t) == startsWith(t, "!")
IsInclusive(t) == ~startsWith(t, "!")

\* currentFilter.split(',').map(term => term.trim()).filter(term => term !== '')
filterTerms(currentFilter) == SelectSeq(MapTrim(split(currentFilter, ",")), NonEmpty)

RECURSIVE MapStripUpper(_)
MapStripUpper(terms) ==
    IF terms = <<>> THEN <<>>
    ELSE <<toUpperCase(substring1(Head(terms)))>> \o MapStripUpper(Tail(terms))

RECURSIVE MapUpper(_)
MapUpper(terms) ==
    IF terms = <<>> THEN <<>>
    ELSE <<toUpperCase(Head(terms))>> \o MapUpper(Tail(terms))

\* filterTerms.filter(startsWith('!')).map(substring(1).toUpperCase()).filter(!== '')
exclusiveTerms(terms) == SelectSeq(MapStripUpper(SelectSeq(terms, IsExclusive)), NonEmpty)

\* filterTerms.filter(!startsWith('!')).map(toUpperCase()).filter(!== '')
inclusiveTerms(terms) == SelectSeq(MapUpper(SelectSeq(terms, IsInclusive)), NonEmpty)

(***************************************************************************)
(* logFilter.ts : passesLogFilters                                         *)
(***************************************************************************)
LOG_LEVEL_ORDER ==
    << <<"V","E","R","Y","V","E","R","B","O","S","E">>,
       <<"V","E","R","B","O","S","E">>,
       <<"L","O","G">>,
       <<"D","I","S","P","L","A","Y">>,
       <<"W","A","R","N","I","N","G">> ,
       <<"E","R","R","O","R">>,
       <<"F","A","T","A","L">> >>

\* array.indexOf(x), 0-based, -1 when absent
indexOf(arr, x) ==
    IF \E i \in 1..Len(arr) : arr[i] = x
    THEN (CHOOSE i \in 1..Len(arr) : arr[i] = x /\ \A j \in 1..(i - 1) : arr[j] # x) - 1
    ELSE -1

\* mutant: a threshold term asks for a strictly higher rank
LevelTermMatchesStrict(incLevel, logLev) ==
    IF startsWith(incLevel, ">")
    THEN LET targetLevelIndex == indexOf(LOG_LEVEL_ORDER, substring1(incLevel))
             logLevelIndex    == indexOf(LOG_LEVEL_ORDER, logLev)
         IN  targetLevelIndex # -1 /\ logLevelIndex # -1
             /\ logLevelIndex > targetLevelIndex
    ELSE logLev = incLevel

\* one inclusive level term against the record's upper-cased level
LevelTermMatches(incLevel, logLev) ==
    IF startsWith(incLevel, ">")
    THEN LET targetLevelIndex == indexOf(LOG_LEVEL_ORDER, substring1(incLevel))
             logLevelIndex    == indexOf(LOG_LEVEL_ORDER, logLev)
         IN  targetLevelIndex # -1 /\ logLevelIndex # -1
             /\ logLevelIndex >= targetLevelIndex
    ELSE logLev = incLevel

\* mutant: a level filter that holds separators but no term lets nothing through
passesLevelFilterNoTermsFails(log, filter) ==
    LET currentLevelFilter == trim(filter)
        logLev          == toUpperCase(trim(log.level))
        terms           == filterTerms(currentLevelFilter)
        exclusiveLevels == exclusiveTerms(terms)
        inclusiveLevels == inclusiveTerms(terms)
        notExcluded     == \A i \in 1..Len(exclusiveLevels) : logLev # exclusiveLevels[i]
    IN  IF currentLevelFilter = <<>> THEN TRUE
        ELSE IF ~notExcluded THEN FALSE
        ELSE IF Len(inclusiveLevels) > 0
             THEN \E i \in 1..Len(inclusiveLevels) :
                      LevelTermMatches(inclusiveLevels[i], logLev)
             ELSE Len(exclusiveLevels) > 0

passesLevelFilter(log, filter) ==
    LET currentLevelFilter == trim(filter)
        logLev          == toUpperCase(trim(log.level))
        terms           == filterTerms(currentLevelFilter)
        exclusiveLevels == exclusiveTerms(terms)
        inclusiveLevels == inclusiveTerms(terms)
        notExcluded     == \A i \in 1..Len(exclusiveLevels) : logLev # exclusiveLevels[i]
    IN  IF currentLevelFilter = <<>> THEN TRUE
        ELSE IF ~notExcluded THEN FALSE
        ELSE IF Len(inclusiveLevels) > 0
             THEN \E i \in 1..Len(inclusiveLevels) :
                      LevelTermMatches(inclusiveLevels[i], logLev)
             ELSE TRUE

\* mutant: a matching inclusion term is looked at before the exclusion terms
passesTextFilterInclusionFirst(value, filter) ==
    LET currentFilter == trim(filter)
        valueUpper    == toUpperCase(value)
        terms         == filterTerms(currentFilter)
        exclusive     == exclusiveTerms(terms)
        inclusive     == inclusiveTerms(terms)
        notExcluded   == \A i \in 1..Len(exclusive) : ~includes(valueUpper, exclusive[i])
    IN  IF currentFilter = <<>> THEN TRUE
        ELSE IF \E i \in 1..Len(inclusive) : includes(valueUpper, inclusive[i]) THEN TRUE
        ELSE notExcluded /\ Len(inclusive) = 0

\* mutant: the record's value is compared as it is written
passesTextFilterCaseSensitive(value, filter) ==
    LET currentFilter == trim(filter)
        terms         == filterTerms(currentFilter)
        exclusive     == exclusiveTerms(terms)
        inclusive     == inclusiveTerms(terms)
        notExcluded   == \A i \in 1..Len(exclusive) : ~includes(value, exclusive[i])
    IN  IF currentFilter = <<>> THEN TRUE
        ELSE IF ~notExcluded THEN FALSE
        ELSE IF Len(inclusive) > 0
             THEN \E i \in 1..Len(inclusive) : includes(value, inclusive[i])
             ELSE TRUE

\* category and message share one algorithm (substring containment)
passesTextFilter(value, filter) ==
    LET currentFilter == trim(filter)
        valueUpper    == toUpperCase(value)
        terms         == filterTerms(currentFilter)
        exclusive     == exclusiveTerms(terms)
        inclusive     == inclusiveTerms(terms)
        notExcluded   == \A i \in 1..Len(exclusive) : ~includes(valueUpper, exclusive[i])
    IN  IF currentFilter = <<>> THEN TRUE
        ELSE IF ~notExcluded THEN FALSE
        ELSE IF Len(inclusive) > 0
             THEN \E i \in 1..Len(inclusive) : includes(valueUpper, inclusive[i])
             ELSE TRUE

passesCategoryFilter(log, filter) == passesTextFilter(log.category, filter)

passesMessageFilter(log, filter) == passesTextFilter(log.message, filter)

\* mutant: a level filter makes the category filter ineffective
passesLogFiltersLevelShadowsCategory(log, options) ==
    /\ passesLevelFilter(log, options.levelFilter)
    /\ (trim(options.levelFilter) # <<>> \/ passesCategoryFilter(log, options.categoryFilter))
    /\ passesMessageFilter(log, options.messageFilter)

passesLogFilters(log, options) ==
    /\ passesLevelFilter(log, options.levelFilter)
    /\ passesCategoryFilter(log, options.categoryFilter)
    /\ passesMessageFilter(log, options.messageFilter)

(***************************************************************************)
(* Records, configuration and the clock.                                   *)
(***************************************************************************)
minAllowedLogs == 100

Max(a, b) == IF a >= b THEN a ELSE b
Min(a, b) == IF a <= b THEN a ELSE b

\* Math.max(maxLogsSetting, minAllowedLogs)
effectiveMaxLogs(setting) == Max(setting, minAllowedLogs)

\* mutant: five per cent instead of ten
numToPruneFivePercent(maxLogs) == Max(1, maxLogs \div 20)

\* Math.max(1, Math.floor(effectiveMaxLogs * 0.1))
numToPrune(maxLogs) == Max(1, maxLogs \div 10)

\* Number.prototype.toString() for a non-negative integer
RECURSIVE Digits(_)
Digits(n) ==
    LET d == <<"0","1","2","3","4","5","6","7","8","9">>
    IN  IF n < 10 THEN <<d[n + 1]>> ELSE Digits(n \div 10) \o <<d[(n % 10) + 1]>>

\* s.padStart(width, '0')
RECURSIVE padStart(_, _)
padStart(s, width) == IF Len(s) >= width THEN s ELSE padStart(<<"0">> \o s, width)

\* mutant: the hours of a relative timestamp roll over at 24
formatDateHoursWrap(date, relative, clearTime) ==
    IF relative
    THEN LET diffMs       == Max(0, date - clearTime)
             milliseconds == padStart(Digits(diffMs % 1000), 3)
             totalSeconds == diffMs \div 1000
             seconds      == padStart(Digits(totalSeconds % 60), 2)
             totalMinutes == totalSeconds \div 60
             minutes      == padStart(Digits(totalMinutes % 60), 2)
             hours        == padStart(Digits((totalMinutes \div 60) % 24), 2)
         IN  <<"+">> \o hours \o <<":">> \o minutes \o <<":">> \o seconds
                 \o <<".">> \o milliseconds
    ELSE LET h  == padStart(Digits((date \div 3600000) % 24), 2)
             m  == padStart(Digits((date \div 60000) % 60), 2)
             s  == padStart(Digits((date \div 1000) % 60), 2)
             ms == padStart(Digits(date % 1000), 3)
         IN  h \o <<":">> \o m \o <<":">> \o s \o <<".">> \o ms

\* UnrealLogViewerProvider._formatDate, on the parsed millisecond value
formatDate(date, relative, clearTime) ==
    IF relative
    THEN LET diffMs       == Max(0, date - clearTime)
             milliseconds == padStart(Digits(diffMs % 1000), 3)
             totalSeconds == diffMs \div 1000
             seconds      == padStart(Digits(totalSeconds % 60), 2)
             totalMinutes == totalSeconds \div 60
             minutes      == padStart(Digits(totalMinutes % 60), 2)
             hours        == padStart(Digits(totalMinutes \div 60), 2)
         IN  <<"+">> \o hours \o <<":">> \o minutes \o <<":">> \o seconds
                 \o <<".">> \o milliseconds
    ELSE LET h  == padStart(Digits((date \div 3600000) % 24), 2)
             m  == padStart(Digits((date \div 60000) % 60), 2)
             s  == padStart(Digits((date \div 1000) % 60), 2)
             ms == padStart(Digits(date % 1000), 3)
         IN  h \o <<":">> \o m \o <<":">> \o s \o <<".">> \o ms

\* log.source || undefined
sourceOrUndefined(source) == IF source = <<>> THEN Undefined ELSE source

\* { ...log, source: log.source || undefined, date: this._formatDate(log.date) }
formatEntry(log, relative, clearTime) ==
    [date     |-> formatDate(log.date, relative, clearTime),
     level    |-> log.level,
     category |-> log.category,
     message  |-> log.message,
     source   |-> sourceOrUndefined(log.source)]

\* the synthetic record addLog stores when it has pruned
pruneLogEntry(prunedCount, maxLogs, time) ==
    [date     |-> time,
     level    |-> <<"W","A","R","N","I","N","G">>,
     category |-> <<"L","o","g","V","i","e","w","e","r","I","n","t","e","r","n","a","l">>,
     message  |-> <<"P","r","u","n","e","d"," ">> \o Digits(prunedCount) \o <<" ","o","l","d","e","s","t"," ","l","o","g"," ","m","e","s","s","a","g","e","(","s",")"," ","t","o"," ","m","a","i","n","t","a","i","n"," ","m","a","x"," ","l","i","m","i","t"," ","o","f"," ">> \o Digits(maxLogs) \o <<".">>,
     source   |-> Undefined]

\* this.logs.filter(log => this._passesFilters(log))
filterLogs(ls, options) == SelectSeq(ls, LAMBDA log : passesLogFilters(log, options))

\* .map(log => formatted entry)
formatAll(ls, relative, clearTime) ==
    [i \in 1..Len(ls) |-> formatEntry(ls[i], relative, clearTime)]

(***************************************************************************)
(* UnrealLogViewerProvider: the pieces of addLog.                          *)
(***************************************************************************)
\* mutant: the capacity test looks at the length before the insertion only
pruneTriggeredLate(ls, maxLogs) == Len(ls) > maxLogs

\* if (this.logs.length + 1 > effectiveMaxLogs)
pruneTriggered(ls, maxLogs) == Len(ls) + 1 > maxLogs

\* actualPruned = this.logs.splice(0, n): the removed elements ...
spliceRemoved(ls, n) == SubSeq(ls, 1, Min(n, Len(ls)))

\* ... and what the array holds afterwards
spliceKept(ls, n) == SubSeq(ls, Min(n, Len(ls)) + 1, Len(ls))

prunedCountOf(ls, maxLogs) ==
    IF pruneTriggered(ls, maxLogs) THEN Len(spliceRemoved(ls, numToPrune(maxLogs))) ELSE 0

\* mutant: a record that arrives while Paused is not stored
addLogStoreDropsWhilePaused(ls, log, maxLogs, paused, hasView, time) ==
    LET kept        == IF pruneTriggered(ls, maxLogs)
                       THEN spliceKept(ls, numToPrune(maxLogs)) ELSE ls
        prunedCount == prunedCountOf(ls, maxLogs)
    IN  IF paused THEN kept
        ELSE IF hasView /\ prunedCount > 0
        THEN kept \o <<log>> \o <<pruneLogEntry(prunedCount, maxLogs, time)>>
        ELSE kept \o <<log>>

\* this.logs after addLog(log) has returned
addLogStore(ls, log, maxLogs, paused, hasView, time) ==
    LET kept        == IF pruneTriggered(ls, maxLogs)
                       THEN spliceKept(ls, numToPrune(maxLogs)) ELSE ls
        prunedCount == prunedCountOf(ls, maxLogs)
        pruned      == prunedCount > 0
    IN  IF ~paused /\ hasView /\ pruned
        THEN kept \o <<log>> \o <<pruneLogEntry(prunedCount, maxLogs, time)>>
        ELSE kept \o <<log>>

\* _updateCountsInWebview with a view attached: the message it posts ...
countsShown(ls, options, paused, lastShown) ==
    IF paused
    THEN IF lastShown = UndefinedCount THEN Len(filterLogs(ls, options)) ELSE lastShown
    ELSE Len(filterLogs(ls, options))

\* mutant: the total is read before the last record is pushed
countsMessageStaleTotal(ls, options, paused, lastShown) ==
    [command |-> "updateCounts",
     shown   |-> countsShown(ls, options, paused, lastShown),
     total   |-> IF ls = <<>> THEN 0 ELSE Len(ls) - 1]

countsMessage(ls, options, paused, lastShown) ==
    [command |-> "updateCounts",
     shown   |-> countsShown(ls, options, paused, lastShown),
     total   |-> Len(ls)]

\* ... and the value it leaves in _lastShownCountWhenPaused
countsLastShown(ls, options, paused, lastShown) ==
    IF paused THEN countsShown(ls, options, paused, lastShown) ELSE UndefinedCount

\* mutant: the new record is appended to the sink whatever the filter says
addLogLiveMessagesUnfiltered(ls, log, maxLogs, options, relative, clearTime, time) ==
    LET prunedCount == prunedCountOf(ls, maxLogs)
        notice      == pruneLogEntry(prunedCount, maxLogs, time)
        after       == addLogStore(ls, log, maxLogs, FALSE, TRUE, time)
    IN  (IF prunedCount > 0
         THEN <<[command |-> "removeOldestLogs", count |-> prunedCount]>>
              \o (IF passesLogFilters(notice, options)
                  THEN <<[command  |-> "addLogEntry",
                          logEntry |-> formatEntry(notice, relative, clearTime)]>>
                  ELSE <<>>)
         ELSE <<>>)
        \o <<[command  |-> "addLogEntry",
              logEntry |-> formatEntry(log, relative, clearTime)]>>
        \o <<countsMessage(after, options, FALSE, UndefinedCount)>>

\* mutant: the remove-oldest instruction is posted after the appends
addLogLiveMessagesRemoveLast(ls, log, maxLogs, options, relative, clearTime, time) ==
    LET prunedCount == prunedCountOf(ls, maxLogs)
        notice      == pruneLogEntry(prunedCount, maxLogs, time)
        after       == addLogStore(ls, log, maxLogs, FALSE, TRUE, time)
    IN  (IF prunedCount > 0 /\ passesLogFilters(notice, options)
         THEN <<[command  |-> "addLogEntry",
                 logEntry |-> formatEntry(notice, relative, clearTime)]>>
         ELSE <<>>)
        \o (IF passesLogFilters(log, options)
            THEN <<[command  |-> "addLogEntry",
                    logEntry |-> formatEntry(log, relative, clearTime)]>>
            ELSE <<>>)
        \o (IF prunedCount > 0
            THEN <<[command |-> "removeOldestLogs", count |-> prunedCount]>>
            ELSE <<>>)
        \o <<countsMessage(after, options, FALSE, UndefinedCount)>>

\* the messages addLog posts while Live with a view attached
addLogLiveMessages(ls, log, maxLogs, options, relative, clearTime, time) ==
    LET prunedCount == prunedCountOf(ls, maxLogs)
        pruned      == prunedCount > 0
        notice      == pruneLogEntry(prunedCount, maxLogs, time)
        after       == addLogStore(ls, log, maxLogs, FALSE, TRUE, time)
    IN  (IF pruned
         THEN <<[command |-> "removeOldestLogs", count |-> prunedCount]>>
              \o (IF passesLogFilters(notice, options)
                  THEN <<[command  |-> "addLogEntry",
                          logEntry |-> formatEntry(notice, relative, clearTime)]>>
                  ELSE <<>>)
         ELSE <<>>)
        \o (IF passesLogFilters(log, options)
            THEN <<[command  |-> "addLogEntry",
                    logEntry |-> formatEntry(log, relative, clearTime)]>>
            ELSE <<>>)
        \o <<countsMessage(after, options, FALSE, UndefinedCount)>>

\* mutant: while Paused the sink is sent the counts only
sendFilteredMessagesLiveOnly(ls, options, paused, lastShown, relative, clearTime) ==
    IF paused
    THEN << countsMessage(ls, options, paused, lastShown) >>
    ELSE << [command |-> "setLogs",
             logs    |-> formatAll(filterLogs(ls, options), relative, clearTime)],
            countsMessage(ls, options, paused, lastShown) >>

\* the messages _sendFilteredLogsToWebview posts (view attached)
sendFilteredMessages(ls, options, paused, lastShown, relative, clearTime) ==
    << [command |-> "setLogs",
        logs    |-> formatAll(filterLogs(ls, options), relative, clearTime)],
       countsMessage(ls, options, paused, lastShown) >>

Filters == [levelFilter    |-> levelFilter,
            categoryFilter |-> categoryFilter,
            messageFilter  |-> messageFilter]

\* mutant: the pause snapshot is ignored
getDisplayedLogEntriesLive ==
    formatAll(filterLogs(logs, Filters), useRelativeTimestamps, lastClearTime)

\* getDisplayedLogEntriesForTest()
getDisplayedLogEntriesForTest ==
    IF isPaused
    THEN displayedLogsOnPause
    ELSE formatAll(filterLogs(logs, Filters), useRelativeTimestamps, lastClearTime)

(***************************************************************************)
(* Inputs of the model.                                                    *)
(***************************************************************************)
\* the records a client sends (date is stamped with the arrival clock)
LogKinds ==
    { [level |-> <<"E","r","r","o","r">>, category |-> <<"L","o","g","T","e","m","p">>, message |-> <<"b","o","o","m">>, source |-> Undefined],
      [level |-> <<"L","o","g">>,   category |-> <<"L","o","g","N","e","t">>,  message |-> <<"o","k">>,   source |-> <<>>] }

incoming(kind, time) ==
    [date |-> time, level |-> kind.level, category |-> kind.category,
     message |-> kind.message, source |-> kind.source]

\* what the filter inputs of the webview send with applyFilters
FilterInputs ==
    { [levelFilter |-> <<>>,       categoryFilter |-> <<>>,   messageFilter |-> Undefined],
      [levelFilter |-> <<"E","r","r","o","r">>,    categoryFilter |-> <<>>,   messageFilter |-> <<>>],
      [levelFilter |-> <<">","W","a","r","n","i","n","g">>, categoryFilter |-> <<" ","!","l","o","g","t","e","m","p">>, messageFilter |-> <<>>] }

\* what a caller passes to setFiltersForTest (a partial spec)
TestFilters ==
    { [level |-> <<"E","r","r","o","r">>,   category |-> Undefined,    message |-> Undefined],
      [level |-> Undefined, category |-> <<" ","!","l","o","g","t","e","m","p">>, message |-> <<>>] }

\* maxLogMessages settings: below the floor, and above it
MaxLogsSettings == { 50, 101 }

\* a store that earlier ingestion has filled with n records
Prefill(n) ==
    [i \in 1..n |->
        incoming(IF i % 2 = 0
                 THEN [level |-> <<"E","r","r","o","r">>, category |-> <<"L","o","g","T","e","m","p">>,
                       message |-> <<"b","o","o","m">>, source |-> Undefined]
                 ELSE [level |-> <<"L","o","g">>, category |-> <<"L","o","g","N","e","t">>,
                       message |-> <<"o","k">>, source |-> <<>>], i)]

(***************************************************************************)
(* UnrealLogViewerProvider: the handlers.                                  *)
(***************************************************************************)
NoFilters == [levelFilter |-> <<>>, categoryFilter |-> <<>>, messageFilter |-> <<>>]

\* addLog(log)
addLog(kind) ==
    LET log         == incoming(kind, now + 1)
        maxLogs     == effectiveMaxLogs(maxLogsSetting)
        prunedCount == prunedCountOf(logs, maxLogs)
        newLogs     == addLogStore(logs, log, maxLogs, isPaused, view, now + 1)
    IN  /\ steps.ingest > 0
        /\ now' = now + 1
        /\ logs' = newLogs
        /\ IF ~isPaused /\ view
           THEN /\ sent' = addLogLiveMessages(logs, log, maxLogs, Filters,
                                              useRelativeTimestamps, lastClearTime, now + 1)
                /\ lastShownCountWhenPaused' = UndefinedCount
           ELSE IF view
           THEN /\ sent' = <<countsMessage(newLogs, Filters, isPaused,
                                           lastShownCountWhenPaused)>>
                /\ lastShownCountWhenPaused' =
                       countsLastShown(newLogs, Filters, isPaused, lastShownCountWhenPaused)
           ELSE /\ sent' = <<>>
                /\ UNCHANGED lastShownCountWhenPaused
        /\ lastOp' = [op |-> "addLog", log |-> log, prunedCount |-> prunedCount,
                      before |-> Len(logs)]
        /\ pauseIngested' = IF isPaused THEN Append(pauseIngested, log) ELSE pauseIngested
        /\ pauseKept' =
               IF isPaused
               THEN Append(SelectSeq(pauseKept,
                               LAMBDA r : \A i \in 1..prunedCount : logs[i] # r), log)
               ELSE SelectSeq(pauseKept, LAMBDA r : \A i \in 1..prunedCount : logs[i] # r)
        /\ steps' = [steps EXCEPT !.ingest = @ - 1]
        /\ UNCHANGED <<levelFilter, categoryFilter, messageFilter, lastClearTime,
                       isPaused, displayedLogsOnPause, view, useRelativeTimestamps,
                       maxLogsSetting>>
        /\ UNCHANGED <<textDocument, decoderVars, filterVars, formatVars, serverVars, pauseVars>>

\* clearLogs()  (command unrealLogViewer.clear)
clearLogs ==
    /\ steps.ops > 0
    /\ logs' = <<>>
    /\ levelFilter' = <<>>
    /\ categoryFilter' = <<>>
    /\ messageFilter' = <<>>
    /\ lastClearTime' = now
    /\ IF view
       THEN /\ sent' = << [command |-> "setLogs", logs |-> <<>>],
                          [command |-> "updateFilterInputs", levelFilter |-> <<>>,
                           categoryFilter |-> <<>>, messageFilter |-> <<>>],
                          countsMessage(<<>>, NoFilters, isPaused, lastShownCountWhenPaused) >>
            /\ lastShownCountWhenPaused' =
                   countsLastShown(<<>>, NoFilters, isPaused, lastShownCountWhenPaused)
       ELSE /\ sent' = <<>>
            /\ UNCHANGED lastShownCountWhenPaused
    /\ lastOp' = [op |-> "clearLogs", before |-> Len(logs), epoch |-> lastClearTime]
    /\ pauseKept' = <<>>
    /\ steps' = [steps EXCEPT !.ops = @ - 1]
    /\ UNCHANGED <<isPaused, displayedLogsOnPause, view, useRelativeTimestamps,
                   maxLogsSetting, now, pauseIngested>>
    /\ UNCHANGED <<textDocument, decoderVars, filterVars, formatVars, serverVars, pauseVars>>

\* mutant: the display clear also resets the three filter strings
handleWebviewClearResetsFilters ==
    /\ steps.ops > 0
    /\ view
    /\ logs' = <<>>
    /\ levelFilter' = <<>>
    /\ categoryFilter' = <<>>
    /\ messageFilter' = <<>>
    /\ lastClearTime' = now
    /\ sent' = << [command |-> "setLogs", logs |-> <<>>],
                  countsMessage(<<>>, NoFilters, isPaused, 0) >>
    /\ lastShownCountWhenPaused' = countsLastShown(<<>>, NoFilters, isPaused, 0)
    /\ lastOp' = [op |-> "handleWebviewClear", before |-> Len(logs),
                  epoch |-> lastClearTime]
    /\ pauseKept' = <<>>
    /\ steps' = [steps EXCEPT !.ops = @ - 1]
    /\ UNCHANGED <<isPaused, displayedLogsOnPause, view, useRelativeTimestamps,
                   maxLogsSetting, now, pauseIngested>>
    /\ UNCHANGED <<textDocument, decoderVars, filterVars, formatVars, serverVars, pauseVars>>

\* mutant: the display clear leaves lastClearTime as it is
handleWebviewClearKeepsEpoch ==
    /\ steps.ops > 0
    /\ view
    /\ logs' = <<>>
    /\ sent' = << [command |-> "setLogs", logs |-> <<>>],
                  countsMessage(<<>>, Filters, isPaused, 0) >>
    /\ lastShownCountWhenPaused' = countsLastShown(<<>>, Filters, isPaused, 0)
    /\ lastOp' = [op |-> "handleWebviewClear", before |-> Len(logs),
                  epoch |-> lastClearTime]
    /\ pauseKept' = <<>>
    /\ steps' = [steps EXCEPT !.ops = @ - 1]
    /\ UNCHANGED <<levelFilter, categoryFilter, messageFilter, lastClearTime, isPaused,
                   displayedLogsOnPause, view, useRelativeTimestamps,
                   maxLogsSetting, now, pauseIngested>>
    /\ UNCHANGED <<textDocument, decoderVars, filterVars, formatVars, serverVars, pauseVars>>

\* handleWebviewClear()  (webview message webviewClearButtonPressed)
handleWebviewClear ==
    /\ steps.ops > 0
    /\ view
    /\ logs' = <<>>
    /\ lastClearTime' = now
    /\ sent' = << [command |-> "setLogs", logs |-> <<>>],
                  countsMessage(<<>>, Filters, isPaused, 0) >>
    /\ lastShownCountWhenPaused' = countsLastShown(<<>>, Filters, isPaused, 0)
    /\ lastOp' = [op |-> "handleWebviewClear", before |-> Len(logs),
                  epoch |-> lastClearTime]
    /\ pauseKept' = <<>>
    /\ steps' = [steps EXCEPT !.ops = @ - 1]
    /\ UNCHANGED <<levelFilter, categoryFilter, messageFilter, isPaused,
                   displayedLogsOnPause, view, useRelativeTimestamps,
                   maxLogsSetting, now, pauseIngested>>
    /\ UNCHANGED <<textDocument, decoderVars, filterVars, formatVars, serverVars, pauseVars>>

\* _sendFilteredLogsToWebview() after the handler has assigned the new state
SendFiltered(newFilters, newPaused, newLastShown, newRelative) ==
    IF view
    THEN /\ sent' = sendFilteredMessages(logs, newFilters, newPaused, newLastShown,
                                         newRelative, lastClearTime)
         /\ lastShownCountWhenPaused' =
                countsLastShown(logs, newFilters, newPaused, newLastShown)
    ELSE /\ sent' = <<>>
         /\ lastShownCountWhenPaused' = newLastShown

\* message.levelFilter?.trim() || ''
trimOrEmpty(f) == IF f = Undefined THEN <<>> ELSE trim(f)

\* webview message applyFilters
applyFilters(lf, cf, mf) ==
    LET newFilters == [levelFilter    |-> trimOrEmpty(lf),
                       categoryFilter |-> trimOrEmpty(cf),
                       messageFilter  |-> trimOrEmpty(mf)]
    IN  /\ steps.ops > 0
        /\ view
        /\ levelFilter' = newFilters.levelFilter
        /\ categoryFilter' = newFilters.categoryFilter
        /\ messageFilter' = newFilters.messageFilter
        /\ SendFiltered(newFilters, isPaused, lastShownCountWhenPaused,
                        useRelativeTimestamps)
        /\ lastOp' = [op |-> "applyFilters"]
        /\ steps' = [steps EXCEPT !.ops = @ - 1]
        /\ UNCHANGED <<logs, lastClearTime, isPaused, displayedLogsOnPause, view,
                       useRelativeTimestamps, maxLogsSetting, now, pauseIngested,
                       pauseKept>>
        /\ UNCHANGED <<textDocument, decoderVars, filterVars, formatVars, serverVars, pauseVars>>

\* mutant: a string that is not supplied is reset to the empty string
trimOrKeepResets(f, old) == IF f = Undefined THEN <<>> ELSE trim(f)

\* mutant: supplying the stored string a second time removes it
trimOrKeepToggles(f, old) ==
    IF f = Undefined THEN old ELSE IF trim(f) = old THEN <<>> ELSE trim(f)

\* filters.level?.trim() ?? this.levelFilter
trimOrKeep(f, old) == IF f = Undefined THEN old ELSE trim(f)

\* setFiltersForTest(filters)
setFiltersForTest(lf, cf, mf) ==
    LET newFilters == [levelFilter    |-> trimOrKeep(lf, levelFilter),
                       categoryFilter |-> trimOrKeep(cf, categoryFilter),
                       messageFilter  |-> trimOrKeep(mf, messageFilter)]
    IN  /\ steps.ops > 0
        /\ levelFilter' = newFilters.levelFilter
        /\ categoryFilter' = newFilters.categoryFilter
        /\ messageFilter' = newFilters.messageFilter
        /\ IF view
           THEN /\ sent' = << [command |-> "updateFilterInputs",
                               levelFilter    |-> newFilters.levelFilter,
                               categoryFilter |-> newFilters.categoryFilter,
                               messageFilter  |-> newFilters.messageFilter] >>
                             \o sendFilteredMessages(logs, newFilters, isPaused,
                                    lastShownCountWhenPaused, useRelativeTimestamps,
                                    lastClearTime)
                /\ lastShownCountWhenPaused' =
                       countsLastShown(logs, newFilters, isPaused, lastShownCountWhenPaused)
           ELSE /\ sent' = <<>>
                /\ UNCHANGED lastShownCountWhenPaused
        /\ lastOp' = [op |-> "setFiltersForTest", level |-> lf, category |-> cf,
                      message |-> mf,
                      again |-> /\ lastOp.op = "setFiltersForTest"
                                /\ lastOp.level = lf
                                /\ lastOp.category = cf
                                /\ lastOp.message = mf]
        /\ steps' = [steps EXCEPT !.ops = @ - 1]
        /\ UNCHANGED <<logs, lastClearTime, isPaused, displayedLogsOnPause, view,
                       useRelativeTimestamps, maxLogsSetting, now, pauseIngested,
                       pauseKept>>
        /\ UNCHANGED <<textDocument, decoderVars, filterVars, formatVars, serverVars, pauseVars>>

\* a toggle that can only pause
toggleStateOnlyPauses(paused) == TRUE

\* this.isPaused = !this.isPaused
toggleState(paused) == ~paused

\* togglePauseState()
togglePauseState ==
    LET newPaused    == toggleState(isPaused)
        snapshot     == formatAll(filterLogs(logs, Filters), useRelativeTimestamps,
                                  lastClearTime)
        newLastShown == IF newPaused THEN Len(snapshot) ELSE UndefinedCount
        button       == [command |-> "updatePauseButton", isPaused |-> newPaused]
    IN  /\ steps.ops > 0
        /\ isPaused' = newPaused
        /\ displayedLogsOnPause' = IF newPaused THEN snapshot ELSE <<>>
        /\ IF view
           THEN /\ sent' = <<button>> \o
                       (IF ~newPaused
                        THEN sendFilteredMessages(logs, Filters, newPaused, newLastShown,
                                                  useRelativeTimestamps, lastClearTime)
                        ELSE <<countsMessage(logs, Filters, newPaused, newLastShown)>>)
                /\ lastShownCountWhenPaused' =
                       countsLastShown(logs, Filters, newPaused, newLastShown)
           ELSE /\ sent' = <<>>
                /\ lastShownCountWhenPaused' = newLastShown
        /\ lastOp' = [op |-> "togglePauseState"]
        /\ pauseIngested' = IF newPaused THEN <<>> ELSE pauseIngested
        /\ pauseKept' = IF newPaused THEN <<>> ELSE pauseKept
        /\ steps' = [steps EXCEPT !.ops = @ - 1, !.toggles = @ + 1]
        /\ UNCHANGED <<logs, levelFilter, categoryFilter, messageFilter, lastClearTime,
                       view, useRelativeTimestamps, maxLogsSetting, now>>
        /\ UNCHANGED <<textDocument, decoderVars, filterVars, formatVars, serverVars, pauseVars>>

\* the limits the setting copilotLogExportLimit takes
ExportLimits == {1, 2}

\* array.join(sep), computed by halves
RECURSIVE join(_, _)
join(lines, sep) ==
    IF lines = <<>> THEN <<>>
    ELSE IF Len(lines) = 1 THEN Head(lines)
    ELSE LET half == Len(lines) \div 2
         IN  join(SubSeq(lines, 1, half), sep) \o sep
                 \o join(SubSeq(lines, half + 1, Len(lines)), sep)

\* `${log.date} [${log.level}] [${log.category}] ${log.message}`; the stored
\* timestamp string is written as its millisecond value
exportLine(log) ==
    Digits(log.date) \o <<" ", "[">> \o log.level \o <<"]", " ", "[">> \o log.category
        \o <<"]", " ">> \o log.message

\* mutant: the older provider, which exports the store without filtering it
exportedLogsUnfiltered(limit) ==
    LET startIndex == Max(0, Len(logs) - limit)
    IN  SubSeq(logs, startIndex + 1, Len(logs))

\* rawLogs.filter(log => provider.passesFilters(log)).slice(startIndex)
exportedLogs(limit) ==
    LET filteredLogs == filterLogs(logs, Filters)
        startIndex   == Max(0, Len(filteredLogs) - limit)
    IN  SubSeq(filteredLogs, startIndex + 1, Len(filteredLogs))

\* LogTextContentProvider.provideTextDocumentContent(uri) under the setting limit
provideTextDocumentContent(limit) ==
    LET logsToExport == exportedLogs(limit)
    IN  /\ steps.ops > 0
        /\ textDocument' = join([i \in 1..Len(logsToExport) |-> exportLine(logsToExport[i])],
                                <<"\n">>)
        /\ lastOp' = [op |-> "provideTextDocumentContent", limit |-> limit]
        /\ steps' = [steps EXCEPT !.ops = @ - 1]
        /\ UNCHANGED <<logs, levelFilter, categoryFilter, messageFilter, lastClearTime,
                       isPaused, lastShownCountWhenPaused, displayedLogsOnPause, view,
                       useRelativeTimestamps, maxLogsSetting, now, sent, pauseIngested,
                       pauseKept>>
        /\ UNCHANGED <<decoderVars, filterVars, formatVars, serverVars, pauseVars>>

\* resolveWebviewView(view)
resolveWebviewView ==
    /\ steps.ops > 0
    /\ ~view
    /\ view' = TRUE
    /\ sent' = << [command |-> "updateFilterInputs", levelFilter |-> levelFilter,
                   categoryFilter |-> categoryFilter, messageFilter |-> messageFilter],
                  [command |-> "updateFontSize"],
                  [command |-> "updateColorMode"],
                  [command |-> "updateGridLinesVisibility"],
                  [command |-> "updateFontFamily"],
                  [command |-> "updatePauseButton", isPaused |-> isPaused],
                  countsMessage(logs, Filters, isPaused, lastShownCountWhenPaused) >>
    /\ lastShownCountWhenPaused' =
           countsLastShown(logs, Filters, isPaused, lastShownCountWhenPaused)
    /\ lastOp' = [op |-> "resolveWebviewView"]
    /\ steps' = [steps EXCEPT !.ops = @ - 1]
    /\ UNCHANGED <<logs, levelFilter, categoryFilter, messageFilter, lastClearTime,
                   isPaused, displayedLogsOnPause, useRelativeTimestamps,
                   maxLogsSetting, now, pauseIngested, pauseKept>>
    /\ UNCHANGED <<textDocument, decoderVars, filterVars, formatVars, serverVars, pauseVars>>

(***************************************************************************)
(* The viewer specification: a fixed maxLogMessages setting.               *)
(***************************************************************************)
DecoderIdle ==
    /\ stream = <<>>
    /\ buffer = <<>>
    /\ added = <<>>
    /\ invalid = <<>>
    /\ segments = <<>>

\* passesLogFilters is not being exercised on its own
FilterIdle ==
    /\ fLog = <<>>
    /\ fTerms = <<>>
    /\ fDone = FALSE
    /\ fPasses = FALSE

\* formatDate is not being exercised on its own
FormatIdle ==
    /\ fmtDate = 0
    /\ fmtClear = 0
    /\ fmtDone = FALSE
    /\ fmtText = <<>>

\* no LogServerManager has been started
ServerIdle ==
    /\ server = 0
    /\ currentPort = 0
    /\ isServerRestarting = FALSE
    /\ activeConnections = {}
    /\ instances = <<>>
    /\ sockets = <<>>
    /\ srvOp = [op |-> "constructor", port |-> 0, outcome |-> "constructed"]
    /\ srvSteps = [calls |-> 0, connections |-> 0, chunks |-> 0, errors |-> 0]

\* no PauseManager call has been made: the field initialisers
PauseIdle ==
    /\ pmIsPaused = FALSE
    /\ pmDisplayedLogsOnPause = <<>>
    /\ pmLastShownCountWhenPaused = UndefinedCount
    /\ pmOp = [op |-> "constructor"]
    /\ pmSteps = [calls |-> 0, captures |-> 0]

Init ==
    /\ logs = <<>>
    /\ now = 0
    /\ levelFilter = <<>>
    /\ categoryFilter = <<>>
    /\ messageFilter = <<>>
    /\ lastClearTime = 0
    /\ isPaused = FALSE
    /\ lastShownCountWhenPaused = UndefinedCount
    /\ displayedLogsOnPause = <<>>
    /\ view = FALSE
    /\ useRelativeTimestamps \in BOOLEAN
    /\ maxLogsSetting = 50
    /\ sent = <<>>
    /\ lastOp = [op |-> "constructor"]
    /\ pauseIngested = <<>>
    /\ pauseKept = <<>>
    /\ steps = [ingest |-> MaxIngest, ops |-> MaxOps, toggles |-> 0]
    /\ textDocument = <<>>
    /\ DecoderIdle
    /\ FilterIdle
    /\ FormatIdle
    /\ ServerIdle
    /\ PauseIdle

Next ==
    \/ \E kind \in LogKinds : addLog(kind)
    \/ clearLogs
    \/ handleWebviewClear
    \/ \E f \in FilterInputs :
           applyFilters(f.levelFilter, f.categoryFilter, f.messageFilter)
    \/ \E f \in TestFilters : setFiltersForTest(f.level, f.category, f.message)
    \/ togglePauseState
    \/ resolveWebviewView
    \/ \E limit \in ExportLimits : provideTextDocumentContent(limit)

Spec == Init /\ [][Next]_vars

(***************************************************************************)
(* The same viewer, started with a store that earlier ingestion has filled *)
(* to one record below the floor of maxLogMessages.                        *)
(***************************************************************************)
InitCapacity ==
    /\ logs = Prefill(minAllowedLogs - 1)
    /\ now = minAllowedLogs - 1
    /\ levelFilter = <<>>
    /\ categoryFilter = <<>>
    /\ messageFilter = <<>>
    /\ lastClearTime = 0
    /\ isPaused = FALSE
    /\ lastShownCountWhenPaused = UndefinedCount
    /\ displayedLogsOnPause = <<>>
    /\ view = FALSE
    /\ useRelativeTimestamps = FALSE
    /\ maxLogsSetting \in MaxLogsSettings
    /\ sent = <<>>
    /\ lastOp = [op |-> "constructor"]
    /\ pauseIngested = <<>>
    /\ pauseKept = <<>>
    /\ steps = [ingest |-> MaxIngest, ops |-> MaxCapacityOps, toggles |-> 0]
    /\ textDocument = <<>>
    /\ DecoderIdle
    /\ FilterIdle
    /\ FormatIdle
    /\ ServerIdle
    /\ PauseIdle

SpecCapacity == InitCapacity /\ [][Next]_vars

(***************************************************************************)
(* The same viewer under a change of the setting maxLogMessages: the store *)
(* has been filled under a larger maximum, which is then lowered.          *)
(***************************************************************************)
\* the setting the store was filled under
LargeMaxLogsSetting == 120

\* the records earlier ingestion has stored under it
StoredUnderLargeSetting == 110

\* onDidChangeConfiguration: the setting maxLogMessages takes a new value,
\* which the next addLog reads
onDidChangeConfiguration(newSetting) ==
    /\ steps.ops > 0
    /\ newSetting # maxLogsSetting
    /\ maxLogsSetting' = newSetting
    /\ sent' = <<>>
    /\ lastOp' = [op |-> "onDidChangeConfiguration", before |-> maxLogsSetting]
    /\ steps' = [steps EXCEPT !.ops = @ - 1]
    /\ UNCHANGED <<logs, levelFilter, categoryFilter, messageFilter, lastClearTime,
                   isPaused, lastShownCountWhenPaused, displayedLogsOnPause, view,
                   useRelativeTimestamps, now, pauseIngested, pauseKept>>
    /\ UNCHANGED <<textDocument, decoderVars, filterVars, formatVars, serverVars, pauseVars>>

InitShrink ==
    /\ logs = Prefill(StoredUnderLargeSetting)
    /\ now = StoredUnderLargeSetting
    /\ levelFilter = <<>>
    /\ categoryFilter = <<>>
    /\ messageFilter = <<>>
    /\ lastClearTime = 0
    /\ isPaused = FALSE
    /\ lastShownCountWhenPaused = UndefinedCount
    /\ displayedLogsOnPause = <<>>
    /\ view = FALSE
    /\ useRelativeTimestamps = FALSE
    /\ maxLogsSetting = LargeMaxLogsSetting
    /\ sent = <<>>
    /\ lastOp = [op |-> "constructor"]
    /\ pauseIngested = <<>>
    /\ pauseKept = <<>>
    /\ steps = [ingest |-> MaxIngest, ops |-> MaxCapacityOps, toggles |-> 0]
    /\ textDocument = <<>>
    /\ DecoderIdle
    /\ FilterIdle
    /\ FormatIdle
    /\ ServerIdle
    /\ PauseIdle

NextShrink ==
    \/ Next
    \/ \E newSetting \in MaxLogsSettings : onDidChangeConfiguration(newSetting)

SpecShrink == InitShrink /\ [][NextShrink]_vars

(***************************************************************************)
(* LogServerManager: the socket data handler (frame decoder).              *)
(*                                                                         *)
(* A byte is a one-character string; "C3" and "A9" are the two bytes of    *)
(* the UTF-8 encoding of the character "é", and "FFFD" is the replacement  *)
(* character that decoding an incomplete sequence yields.                  *)
(***************************************************************************)
\* data.toString(): UTF-8 decoding of one chunk, on its own
RECURSIVE toString(_)
toString(data) ==
    IF data = <<>> THEN <<>>
    ELSE IF Head(data) = "C3"
         THEN IF Len(data) >= 2 /\ data[2] = "A9"
              THEN <<"é">> \o toString(Tail(Tail(data)))
              ELSE <<"FFFD">> \o toString(Tail(data))
    ELSE IF Head(data) = "A9" THEN <<"FFFD">> \o toString(Tail(data))
    ELSE <<Head(data)>> \o toString(Tail(data))

\* buffer.indexOf('{'), 1-based, 0 when absent
indexOfBrace(buf) ==
    IF \E i \in 1..Len(buf) : buf[i] = "{"
    THEN CHOOSE i \in 1..Len(buf) : buf[i] = "{" /\ \A j \in 1..(i - 1) : buf[j] # "{"
    ELSE 0

\* the for loop that looks for the matching '}': the index it stops at, 0 for none
RECURSIVE scanEnd(_, _, _, _, _)
scanEnd(buf, i, braceCount, inString, escape) ==
    IF i > Len(buf) THEN 0
    ELSE LET char == buf[i]
         IN  IF inString
             THEN IF escape THEN scanEnd(buf, i + 1, braceCount, TRUE, FALSE)
                  ELSE IF char = "\\" THEN scanEnd(buf, i + 1, braceCount, TRUE, TRUE)
                  ELSE IF char = "\"" THEN scanEnd(buf, i + 1, braceCount, FALSE, FALSE)
                  ELSE scanEnd(buf, i + 1, braceCount, TRUE, FALSE)
             ELSE IF char = "\"" THEN scanEnd(buf, i + 1, braceCount, TRUE, escape)
                  ELSE IF char = "{" THEN scanEnd(buf, i + 1, braceCount + 1, FALSE, escape)
                  ELSE IF char = "}"
                       THEN IF braceCount - 1 = 0 THEN i
                            ELSE scanEnd(buf, i + 1, braceCount - 1, FALSE, escape)
                  ELSE scanEnd(buf, i + 1, braceCount, FALSE, escape)

(***************************************************************************)
(* JSON.parse on the alphabet of the model: a value is a string or an      *)
(* object; a string may hold any character but a raw quote, a raw          *)
(* backslash or a line break, and the escapes \" and \\.  Each parser      *)
(* returns the index after what it has parsed, 0 on a syntax error.        *)
(***************************************************************************)
RECURSIVE parseStringBody(_, _)
parseStringBody(s, i) ==
    IF i > Len(s) THEN 0
    ELSE IF s[i] = "\"" THEN i + 1
    ELSE IF s[i] = "\\"
         THEN IF i + 1 <= Len(s) /\ s[i + 1] \in {"\"", "\\"}
              THEN parseStringBody(s, i + 2) ELSE 0
    ELSE IF s[i] = "\n" THEN 0
    ELSE parseStringBody(s, i + 1)

parseString(s, i) ==
    IF i <= Len(s) /\ s[i] = "\"" THEN parseStringBody(s, i + 1) ELSE 0

RECURSIVE parseValue(_, _)
RECURSIVE parseMembers(_, _)

\* members after '{' or ',': string ':' value, then ',' or '}'
parseMembers(s, i) ==
    LET afterKey == parseString(s, i)
    IN  IF afterKey = 0 \/ afterKey > Len(s) \/ s[afterKey] # ":" THEN 0
        ELSE LET afterValue == parseValue(s, afterKey + 1)
             IN  IF afterValue = 0 \/ afterValue > Len(s) THEN 0
                 ELSE IF s[afterValue] = "}" THEN afterValue + 1
                 ELSE IF s[afterValue] = "," THEN parseMembers(s, afterValue + 1)
                 ELSE 0

parseValue(s, i) ==
    IF i > Len(s) THEN 0
    ELSE IF s[i] = "\"" THEN parseString(s, i)
    ELSE IF s[i] = "{"
         THEN IF i + 1 <= Len(s) /\ s[i + 1] = "}" THEN i + 2
              ELSE parseMembers(s, i + 1)
    ELSE 0

\* JSON.parse(jsonStr) returns (does not throw)
jsonParses(jsonStr) == parseValue(jsonStr, 1) = Len(jsonStr) + 1

\* the while loop of the data handler, from the state it is entered with
RECURSIVE drain(_, _, _)
drain(buf, add, inv) ==
    LET startIdx == indexOfBrace(buf)
        endIdx   == IF startIdx = 0 THEN 0 ELSE scanEnd(buf, startIdx, 0, FALSE, FALSE)
    IN  IF startIdx = 0 \/ endIdx = 0
        THEN [buffer |-> buf, added |-> add, invalid |-> inv]
        ELSE LET jsonStr == SubSeq(buf, startIdx, endIdx)
                 rest    == SubSeq(buf, endIdx + 1, Len(buf))
             IN  IF jsonParses(jsonStr)
                 THEN drain(rest, Append(add, jsonStr), inv)
                 ELSE drain(rest, add, Append(inv, jsonStr))

\* socket.on('data', data => ...) for a chunk of the next n bytes of the stream
onData(n) ==
    LET data == SubSeq(stream, 1, n)
        out  == drain(buffer \o toString(data), added, invalid)
    IN  /\ n \in 1..Len(stream)
        /\ stream' = SubSeq(stream, n + 1, Len(stream))
        /\ buffer' = out.buffer
        /\ added' = out.added
        /\ invalid' = out.invalid
        /\ UNCHANGED segments
        /\ UNCHANGED <<viewerVars, filterVars, formatVars, serverVars, pauseVars>>

(***************************************************************************)
(* The decoder specification: one connection, one byte stream, delivered   *)
(* in chunks of any sizes.                                                 *)
(***************************************************************************)
\* well-formed JSON-object frames, as bytes
WellFormedFrames ==
    { <<"{","\"","a","\"",":","\"","a","\"","}">>,
      <<"{","\"","a","\"",":","\"","}","{","\"","}">>,
      <<"{","\"","a","\"",":","\"","\\","\"","\"","}">>,
      <<"{","\"","a","\"",":","\"","C3","A9","\"","}">> }

\* a frame that holds the four fields of UnrealLogEntry; it is sent on its own
RecordFrames ==
    { <<"{","\"","d","a","t","e","\"",":","\"","\"",",","\"","l","e","v","e","l","\"",":","\"","\"",",","\"","c","a","t","e","g","o","r","y","\"",":","\"","\"",",","\"","m","e","s","s","a","g","e","\"",":","\"","\"","}">> }

\* bytes between frames that hold no '{'
Separators == { <<"\n">>, <<"a","}","\"">> }

\* fragments that are no well-formed frame
MalformedFrames ==
    { <<"{">>,
      <<"{","\"","a","}">>,
      <<"{","a","}">> }

SegmentKinds ==
    [kind : {"frame"}, bytes : WellFormedFrames]
        \cup [kind : {"separator"}, bytes : Separators]
        \cup [kind : {"malformed"}, bytes : MalformedFrames]

RECURSIVE concat(_)
concat(segs) == IF segs = <<>> THEN <<>> ELSE Head(segs).bytes \o concat(Tail(segs))

InitDecoder ==
    /\ segments \in UNION { [1..n -> SegmentKinds] : n \in 1..MaxSegments }
                       \cup { <<[kind |-> "frame", bytes |-> r]>> : r \in RecordFrames }
    /\ stream = concat(segments)
    /\ buffer = <<>>
    /\ added = <<>>
    /\ invalid = <<>>
    /\ logs = <<>>
    /\ now = 0
    /\ levelFilter = <<>>
    /\ categoryFilter = <<>>
    /\ messageFilter = <<>>
    /\ lastClearTime = 0
    /\ isPaused = FALSE
    /\ lastShownCountWhenPaused = UndefinedCount
    /\ displayedLogsOnPause = <<>>
    /\ view = FALSE
    /\ useRelativeTimestamps = FALSE
    /\ maxLogsSetting = 50
    /\ sent = <<>>
    /\ lastOp = [op |-> "constructor"]
    /\ pauseIngested = <<>>
    /\ pauseKept = <<>>
    /\ steps = [ingest |-> 0, ops |-> 0, toggles |-> 0]
    /\ textDocument = <<>>
    /\ FilterIdle
    /\ FormatIdle
    /\ ServerIdle
    /\ PauseIdle

NextDecoder == \E n \in 1..Len(stream) : onData(n)

SpecDecoder == InitDecoder /\ [][NextDecoder]_vars

(***************************************************************************)
(* logFilter.ts on its own: passesLogFilters applied to one record under   *)
(* filter strings made of up to MaxTerms comma-separated terms per field.  *)
(***************************************************************************)
\* the records the predicate is applied to
FilterRecords ==
    { [level |-> <<"V","e","r","y","V","e","r","b","o","s","e">>, category |-> <<"L","o","g","T","e","m","p">>, message |-> <<"b","o","o","m">>,
        date |-> 0, source |-> Undefined],
      [level |-> <<"V","e","r","b","o","s","e">>, category |-> <<"L","o","g","N","e","t">>, message |-> <<"o","k">>,
        date |-> 0, source |-> Undefined],
      [level |-> <<"L","o","g">>, category |-> <<"L","o","g","T","e","m","p">>, message |-> <<"b","o","o","m">>,
        date |-> 0, source |-> Undefined],
      [level |-> <<"D","I","S","P","L","A","Y">>, category |-> <<"L","o","g","N","e","t">>, message |-> <<"o","k">>,
        date |-> 0, source |-> Undefined],
      [level |-> <<"w","a","r","n","i","n","g">>, category |-> <<"L","o","g","T","e","m","p">>, message |-> <<"b","o","o","m">>,
        date |-> 0, source |-> Undefined],
      [level |-> <<"E","r","r","o","r">>, category |-> <<"L","o","g","T","e","m","p">>, message |-> <<"b","o","o","m">>,
        date |-> 0, source |-> Undefined],
      [level |-> <<" ","e","r","r","o","r"," ">>, category |-> <<"L","o","g","N","e","t">>, message |-> <<"o","k">>,
        date |-> 0, source |-> Undefined],
      [level |-> <<"F","a","t","a","l">>, category |-> <<"L","o","g","N","e","t">>, message |-> <<"b","o","o","m">>,
        date |-> 0, source |-> Undefined],
      [level |-> <<"B","o","g","u","s">>, category |-> <<"L","o","g","T","e","m","p">>, message |-> <<"o","k">>,
        date |-> 0, source |-> Undefined] }

\* terms a user types into the level, category and message filter inputs
LevelTerms == { <<"E","r","r","o","r">>, <<"!","e","r","r","o","r">>, <<">","W","a","r","n","i","n","g">>, <<">","b","o","g","u","s">>, <<">","v","e","r","y","v","e","r","b","o","s","e">>, <<"E","r","r">>, <<" ">> }

CategoryTerms == { <<"t","e","m","p">>, <<"!","T","e","m","p">>, <<"!">>, <<"L","o","g","*">>, <<" ">> }

MessageTerms == { <<"B","O","O","M">>, <<" ">> }

TermLists(terms) == UNION { [1..n -> terms] : n \in 0..MaxTerms }

\* the filter string that holds the terms, separated by commas
RECURSIVE joinTerms(_)
joinTerms(terms) ==
    IF terms = <<>> THEN <<>>
    ELSE IF Len(terms) = 1 THEN Head(terms)
    ELSE Head(terms) \o <<",">> \o joinTerms(Tail(terms))

\* the options _passesFilters hands to passesLogFilters
optionsOf(terms) ==
    [levelFilter    |-> joinTerms(terms.levelFilter),
     categoryFilter |-> joinTerms(terms.categoryFilter),
     messageFilter  |-> joinTerms(terms.messageFilter)]

ViewerIdle ==
    /\ logs = <<>>
    /\ now = 0
    /\ levelFilter = <<>>
    /\ categoryFilter = <<>>
    /\ messageFilter = <<>>
    /\ lastClearTime = 0
    /\ isPaused = FALSE
    /\ lastShownCountWhenPaused = UndefinedCount
    /\ displayedLogsOnPause = <<>>
    /\ view = FALSE
    /\ useRelativeTimestamps = FALSE
    /\ maxLogsSetting = 50
    /\ sent = <<>>
    /\ lastOp = [op |-> "constructor"]
    /\ pauseIngested = <<>>
    /\ pauseKept = <<>>
    /\ steps = [ingest |-> 0, ops |-> 0, toggles |-> 0]
    /\ textDocument = <<>>

InitFilter ==
    /\ fLog \in FilterRecords
    /\ fTerms \in [levelFilter    : TermLists(LevelTerms),
                    categoryFilter : TermLists(CategoryTerms),
                    messageFilter  : TermLists(MessageTerms)]
    /\ fDone = FALSE
    /\ fPasses = FALSE
    /\ ViewerIdle
    /\ DecoderIdle
    /\ FormatIdle
    /\ ServerIdle
    /\ PauseIdle

\* a call of passesLogFilters(log, options)
evaluateFilter ==
    /\ ~fDone
    /\ fDone' = TRUE
    /\ fPasses' = passesLogFilters(fLog, optionsOf(fTerms))
    /\ UNCHANGED <<fLog, fTerms>>
    /\ UNCHANGED <<viewerVars, decoderVars, formatVars, serverVars, pauseVars>>

NextFilter == evaluateFilter

SpecFilter == InitFilter /\ [][NextFilter]_vars

(***************************************************************************)
(* Claims about the frame decoder.                                         *)
(***************************************************************************)
IsFrame(seg) == seg.kind = "frame"
IsMalformed(seg) == seg.kind = "malformed"

\* the frames of the stream as the client wrote them, in stream order
framesOf(segs) ==
    LET frames == SelectSeq(segs, IsFrame)
    IN  [i \in 1..Len(frames) |-> toString(frames[i].bytes)]

StreamDelivered == stream = <<>>

\* C4: no malformed input halts ingestion: once the whole stream has been
\* delivered, every well-formed frame that was sent after a malformed fragment
\* has been decoded and handed to addLogCallback.
C4_NoMalformedInputHaltsIngestion ==
    StreamDelivered =>
        \A i \in 1..Len(segments) :
            (IsFrame(segments[i]) /\ \E j \in 1..(i - 1) : IsMalformed(segments[j]))
                => \E k \in 1..Len(added) : added[k] = toString(segments[i].bytes)

\* C5: for a stream made of well-formed frames, back-to-back or separated by
\* other bytes, the decoder yields exactly those frames, each once and in stream
\* order, however the stream is split into chunks.
C5_DecoderYieldsExactlyTheFrames ==
    (StreamDelivered /\ \A i \in 1..Len(segments) : ~IsMalformed(segments[i]))
        => added = framesOf(segments)

\* Lemma: a stream of well-formed frames that holds only ASCII bytes is decoded
\* exactly, however it is split into chunks.
AsciiStreamsDecodeExactly ==
    (StreamDelivered /\ \A i \in 1..Len(segments) :
         ~IsMalformed(segments[i]) /\ \A k \in 1..Len(segments[i].bytes) : segments[i].bytes[k] # "C3")
        => added = framesOf(segments) /\ invalid = <<>>

(***************************************************************************)
(* Claims about the store and the view synchronizer.                       *)
(***************************************************************************)
LastWasAddLog == lastOp.op = "addLog"

IsNotice(r) ==
    /\ r.level = <<"W","A","R","N","I","N","G">>
    /\ r.category = <<"L","o","g","V","i","e","w","e","r","I","n","t","e","r","n","a","l">>

\* max(1, floor(maxRecords * 0.1)), as the claims state it
ExpectedEvicted(maxRecords) == IF maxRecords \div 10 >= 1 THEN maxRecords \div 10 ELSE 1

\* the configured maximum after the floor of 100 is applied
MaxRecords == IF maxLogsSetting >= 100 THEN maxLogsSetting ELSE 100

\* C1: under a fixed configured maximum, the store holds at most maxRecords
\* records after each insertion, the eviction notice included.
C1_StoreWithinCapacity == Len(logs) <= MaxRecords

\* C1 witness: an insertion has evicted and stored its notice, and the store is
\* within capacity.
C1_Witness ==
    /\ LastWasAddLog
    /\ lastOp.prunedCount > 0
    /\ IsNotice(logs[Len(logs)])
    /\ Len(logs) <= MaxRecords

\* C2: while the viewer stays Paused, an ingestion (evicting or not) leaves what
\* get-displayed-records returns unchanged, in count and in content.
C2_PausedDisplayFrozen ==
    [][(isPaused /\ isPaused' /\ now' # now)
          => getDisplayedLogEntriesForTest' = getDisplayedLogEntriesForTest]_vars

\* C2 witness: Paused with a non-empty snapshot, and the last ingestion evicted.
C2_Witness ==
    /\ isPaused
    /\ LastWasAddLog
    /\ lastOp.prunedCount > 0
    /\ getDisplayedLogEntriesForTest # <<>>

JustResumed == lastOp.op = "togglePauseState" /\ ~isPaused

\* s is the tail of t
IsSuffix(s, t) ==
    Len(s) <= Len(t) /\ SubSeq(t, Len(t) - Len(s) + 1, Len(t)) = s

\* what the sink is to show of the records rs under the current settings
Projected(rs) == formatAll(filterLogs(rs, Filters), useRelativeTimestamps, lastClearTime)

\* C3 as stated: right after a resume, get-displayed-records holds every record
\* that was ingested during the pause and passes the current filter, in arrival
\* order.
C3_ResumeShowsAllIngested ==
    JustResumed => IsSuffix(Projected(pauseIngested), getDisplayedLogEntriesForTest)

\* C3 as amended: right after a resume, get-displayed-records holds, in arrival
\* order, every record ingested during the pause that passes the current filter
\* and that no clear and no eviction has removed from the store meanwhile.
C3_ResumeShowsAllStillStored ==
    JustResumed => IsSuffix(Projected(pauseKept), getDisplayedLogEntriesForTest)

\* C3 witness: a resume after a pause during which two records that pass the
\* filter, and one that does not, were ingested and kept.
C3_Witness ==
    /\ JustResumed
    /\ Len(Projected(pauseKept)) >= 2
    /\ Len(Projected(pauseKept)) < Len(pauseKept)

\* C6: an insertion that finds the store at capacity removes exactly
\* max(1, floor(maxRecords * 0.1)) records, the oldest ones, and the new record
\* is appended right after the records that were kept.
C6_EvictsOldestTenth ==
    [][(now' # now /\ Len(logs) + 1 > MaxRecords)
          => LET n    == ExpectedEvicted(MaxRecords)
                 kept == Len(logs) - n
             IN  /\ kept >= 0
                 /\ Len(logs') > kept
                 /\ SubSeq(logs', 1, kept) = SubSeq(logs, n + 1, Len(logs))
                 /\ logs'[kept + 1] = lastOp'.log
                 /\ \A i \in (kept + 2)..Len(logs') : IsNotice(logs'[i])]_vars

\* C6 witness: the last insertion found the store at capacity and evicted.
C6_Witness ==
    /\ LastWasAddLog
    /\ lastOp.before + 1 > MaxRecords
    /\ lastOp.prunedCount = ExpectedEvicted(MaxRecords)

\* C7: every insertion that evicts stores exactly one eviction notice after the
\* evicted records are removed, in every viewer state.
C7_EvictionStoresOneNotice ==
    (LastWasAddLog /\ lastOp.prunedCount > 0)
        => /\ Len(logs) = lastOp.before - lastOp.prunedCount + 2
           /\ Cardinality({i \in (Len(logs) - 1)..Len(logs) : IsNotice(logs[i])}) = 1

CountsOps ==
    {"addLog", "applyFilters", "setFiltersForTest", "clearLogs", "handleWebviewClear",
     "togglePauseState"}

LastSent == sent[Len(sent)]

\* C8: after every ingest, filter change, full clear, display clear and pause
\* toggle the counts emitted to the sink are total = records in the store and
\* shown = length of the visible set (filtered store when Live, frozen snapshot
\* when Paused).
C8_CountsMatchStoreAndVisibleSet ==
    (view /\ lastOp.op \in CountsOps)
        => /\ sent # <<>>
           /\ LastSent.command = "updateCounts"
           /\ LastSent.total = Len(logs)
           /\ LastSent.shown = Len(getDisplayedLogEntriesForTest)

\* C9: while Paused an ingestion emits nothing to the sink but one counts update,
\* with total = the new store size and shown = the frozen snapshot length.
C9_PausedIngestEmitsOnlyCounts ==
    (isPaused /\ view /\ LastWasAddLog)
        => sent = << [command |-> "updateCounts",
                      shown   |-> Len(displayedLogsOnPause),
                      total   |-> Len(logs)] >>

\* the append instruction for the record that was ingested last
AppendOfLast ==
    [command  |-> "addLogEntry",
     logEntry |-> formatEntry(lastOp.log, useRelativeTimestamps, lastClearTime)]

\* C10: while Live with a sink attached, an ingested record is emitted as an
\* appended record exactly when it passes the current filter, and a counts update
\* is emitted after it.
C10_LiveAppendIffPassesFilter ==
    (~isPaused /\ view /\ LastWasAddLog)
        => /\ (passesLogFilters(lastOp.log, Filters)
                  <=> \E i \in 1..Len(sent) : sent[i] = AppendOfLast)
           /\ sent # <<>>
           /\ LastSent.command = "updateCounts"
           /\ \A i \in 1..(Len(sent) - 1) : sent[i].command # "updateCounts"

\* C10 witnesses: a record that passes the filter was appended while another
\* record is held back by the same filter.
C10_Witness ==
    /\ ~isPaused /\ view /\ LastWasAddLog
    /\ passesLogFilters(lastOp.log, Filters)
    /\ \E i \in 1..Len(sent) : sent[i] = AppendOfLast
    /\ \E i \in 1..Len(logs) : ~passesLogFilters(logs[i], Filters)

\* positions of the messages with the given command in what the last handler sent
SentAt(command) == {i \in 1..Len(sent) : sent[i].command = command}

LiveEviction == ~isPaused /\ view /\ LastWasAddLog /\ lastOp.before + 1 > MaxRecords

\* C11: when an insertion evicts while Live with a sink attached, the sink gets
\* exactly one remove-oldest instruction, its count is the number of records the
\* store has lost, and it comes before the appends of the notice and the record.
C11_OneRemoveOldestBeforeAppends ==
    LiveEviction
        => /\ Cardinality(SentAt("removeOldestLogs")) = 1
           /\ \A i \in SentAt("removeOldestLogs") :
                  /\ sent[i].count = lastOp.before + 2 - Len(logs)
                  /\ sent[i].count > 0
                  /\ \A j \in SentAt("addLogEntry") : i < j

\* C11 witness: a live eviction after which the notice and the record were both
\* appended to the sink.
C11_Witness ==
    /\ LiveEviction
    /\ Cardinality(SentAt("addLogEntry")) = 2
    /\ SentAt("removeOldestLogs") # {}

FilterChangeOps == {"applyFilters", "setFiltersForTest"}

\* C12: on every filter change with a sink attached, Paused or not, the sink gets
\* one full-replace instruction holding exactly the records of the whole store
\* that pass the new filter, timestamp-projected, in store order.
C12_FilterChangeFullReplace ==
    (view /\ lastOp.op \in FilterChangeOps)
        => /\ Cardinality(SentAt("setLogs")) = 1
           /\ \A i \in SentAt("setLogs") : sent[i].logs = Projected(logs)

\* C12 witness: a filter change while Paused that keeps some stored records and
\* holds back others.
C12_Witness ==
    /\ view /\ isPaused /\ lastOp.op \in FilterChangeOps
    /\ Projected(logs) # <<>>
    /\ Len(Projected(logs)) < Len(logs)
    /\ SentAt("setLogs") # {}

ZeroCounts == [command |-> "updateCounts", shown |-> 0, total |-> 0]

\* C13: after a full clear-logs command, Live or Paused, the store is empty, the
\* three filter strings are empty, the pause snapshot is reset, and the counts
\* sent to the sink are shown = 0 and total = 0.
C13_FullClearResetsEverything ==
    lastOp.op = "clearLogs"
        => /\ logs = <<>>
           /\ Filters = NoFilters
           /\ displayedLogsOnPause = <<>>
           /\ view => (sent # <<>> /\ LastSent = ZeroCounts)

\* the step is a run of the named handler
Ran(op) == lastOp'.op = op /\ steps' # steps

\* C14: a display-only clear issued while Paused sets the frozen shown count to 0
\* and empties the snapshot, so that get-displayed-records returns the empty
\* list, and leaves the viewer Paused.
C14_DisplayClearWhilePausedEmptiesSnapshot ==
    [][(isPaused /\ Ran("handleWebviewClear"))
          => /\ isPaused'
             /\ lastShownCountWhenPaused' = 0
             /\ displayedLogsOnPause' = <<>>
             /\ getDisplayedLogEntriesForTest' = <<>>]_vars

\* C15: a display-only clear empties the store and leaves the three filter
\* strings and the Live/Paused state as they were.
C15_DisplayClearKeepsFiltersAndPause ==
    [][Ran("handleWebviewClear")
          => /\ logs' = <<>>
             /\ levelFilter' = levelFilter
             /\ categoryFilter' = categoryFilter
             /\ messageFilter' = messageFilter
             /\ isPaused' = isPaused]_vars

\* C15 witness: a display-only clear of a non-empty store under a non-empty
\* filter.
C15_Witness ==
    /\ lastOp.op = "handleWebviewClear"
    /\ lastOp.before > 0
    /\ logs = <<>>
    /\ Filters # NoFilters

\* C16 as stated: the reset epoch changes only in a full clear, and a
\* display-only clear leaves it unchanged.
C16_EpochChangesOnlyOnFullClear ==
    [][/\ lastClearTime' # lastClearTime => Ran("clearLogs")
       /\ Ran("handleWebviewClear") => lastClearTime' = lastClearTime]_vars

\* C16 as amended: the reset epoch changes only when the store is emptied, by a
\* full clear or by a display-only clear, and each of the two sets it to the
\* current time.
C16_EpochChangesOnlyOnClears ==
    [][/\ lastClearTime' # lastClearTime
           => (Ran("clearLogs") \/ Ran("handleWebviewClear"))
       /\ (Ran("clearLogs") \/ Ran("handleWebviewClear"))
           => lastClearTime' = now']_vars

\* C16 witness: a display-only clear has moved the reset epoch.
C16_Witness ==
    /\ lastOp.op = "handleWebviewClear"
    /\ lastOp.epoch # lastClearTime
    /\ lastClearTime = now

(***************************************************************************)
(* Claims about the filter predicate.                                      *)
(***************************************************************************)
FilterFields == {"levelFilter", "categoryFilter", "messageFilter"}

\* the record's value of the field a filter string is about, case-folded
FieldValue(field) ==
    IF field = "levelFilter" THEN toUpperCase(trim(fLog.level))
    ELSE IF field = "categoryFilter" THEN toUpperCase(fLog.category)
    ELSE toUpperCase(fLog.message)

IsExclusionTerm(term) == term # <<>> /\ term[1] = "!"

\* a term without its `!`, case-folded
TermBody(term) == toUpperCase(IF IsExclusionTerm(term) THEN Tail(term) ELSE term)

IsThresholdTerm(term) == term # <<>> /\ term[1] = ">"

\* rank in VERYVERBOSE < VERBOSE < LOG < DISPLAY < WARNING < ERROR < FATAL,
\* 0 for a name that is not in the order
SeverityRank(name) ==
    CASE name = <<"V","E","R","Y","V","E","R","B","O","S","E">> -> 1
      [] name = <<"V","E","R","B","O","S","E">> -> 2
      [] name = <<"L","O","G">> -> 3
      [] name = <<"D","I","S","P","L","A","Y">> -> 4
      [] name = <<"W","A","R","N","I","N","G">> -> 5
      [] name = <<"E","R","R","O","R">> -> 6
      [] name = <<"F","A","T","A","L">> -> 7
      [] OTHER -> 0

ThresholdMatches(term) ==
    LET x == SeverityRank(Tail(TermBody(term)))
        r == SeverityRank(FieldValue("levelFilter"))
    IN  x > 0 /\ r > 0 /\ r >= x

\* the matching rule of a field: exact (or threshold) for the severity,
\* substring containment for category and message
TermMatches(field, term) ==
    IF field = "levelFilter"
    THEN IF ~IsExclusionTerm(term) /\ IsThresholdTerm(term)
         THEN ThresholdMatches(term)
         ELSE FieldValue(field) = TermBody(term)
    ELSE includes(FieldValue(field), TermBody(term))

MatchingExclusions(field) ==
    {i \in 1..Len(fTerms[field]) :
        IsExclusionTerm(fTerms[field][i]) /\ TermMatches(field, fTerms[field][i])}

MatchingInclusions(field) ==
    {i \in 1..Len(fTerms[field]) :
        ~IsExclusionTerm(fTerms[field][i]) /\ TermMatches(field, fTerms[field][i])}

\* C17 as stated: a record that an exclusion term and an inclusion term of the
\* same filter field both match fails the filter, whatever the order of the terms.
C17_ExclusionWins ==
    fDone =>
        \A field \in FilterFields :
            (MatchingExclusions(field) # {} /\ MatchingInclusions(field) # {})
                => ~fPasses

\* an exclusion term that is more than a bare `!`
HasBody(term) == TermBody(term) # <<>>

\* C17 as amended: a record that an inclusion term and an exclusion term with a
\* non-empty body (more than a bare `!`) of the same filter field both match
\* fails the filter, whatever the order of the terms.
C17_ExclusionWithBodyWins ==
    fDone =>
        \A field \in FilterFields :
            ((\E i \in MatchingExclusions(field) : HasBody(fTerms[field][i]))
                 /\ MatchingInclusions(field) # {})
                => ~fPasses

\* C17 witness: the inclusion term comes first, the matching exclusion term
\* second, no other field filters, and the record fails.
C17_Witness ==
    /\ fDone /\ ~fPasses
    /\ fTerms.levelFilter = <<>> /\ fTerms.messageFilter = <<>>
    /\ 1 \in MatchingInclusions("categoryFilter")
    /\ 2 \in MatchingExclusions("categoryFilter")
    /\ HasBody(fTerms.categoryFilter[2])

\* the filter spec with every field but one emptied
OnlyField(field) ==
    [f \in FilterFields |-> IF f = field THEN joinTerms(fTerms[f]) ELSE <<>>]

\* C18: the result is the logical AND of the three per-field results, each
\* evaluated on its own; the filter string of one field never changes the
\* result of another.
C18_ResultIsAndOfFields ==
    fDone =>
        (fPasses <=> \A field \in FilterFields : passesLogFilters(fLog, OnlyField(field)))

\* C18 witness: three non-empty filters, the record passes two fields and fails
\* the third, and so fails.
C18_Witness ==
    /\ fDone /\ ~fPasses
    /\ \A field \in FilterFields : fTerms[field] # <<>>
    /\ passesLogFilters(fLog, OnlyField("levelFilter"))
    /\ ~passesLogFilters(fLog, OnlyField("categoryFilter"))
    /\ passesLogFilters(fLog, OnlyField("messageFilter"))

\* the one term of a one-term filter that is the only filter in force
OnlyTermIn(field) ==
    /\ Len(fTerms[field]) = 1
    /\ \A f \in FilterFields \ {field} : fTerms[f] = <<>>

\* C19: a severity term >X matches a record exactly when X and the record's
\* severity are both in the fixed order and the record's rank is at least X's;
\* a threshold naming an unknown severity matches no record.
C19_ThresholdByRank ==
    (fDone /\ OnlyTermIn("levelFilter") /\ IsThresholdTerm(fTerms.levelFilter[1]))
        => (fPasses <=> ThresholdMatches(fTerms.levelFilter[1]))

\* C19 witness: >Warning lets a record of exactly that severity through.
C19_Witness ==
    /\ fDone /\ fPasses
    /\ OnlyTermIn("levelFilter")
    /\ fTerms.levelFilter[1] = <<">","W","a","r","n","i","n","g">>
    /\ FieldValue("levelFilter") = <<"W","A","R","N","I","N","G">>

IsPlainTerm(term) == trim(term) # <<>> /\ ~IsExclusionTerm(term) /\ ~IsThresholdTerm(term)

\* C20: matching ignores case; a category or message term matches by substring
\* containment, a severity term that is no threshold only by equality.
C20_CaseInsensitiveSubstringAndExactSeverity ==
    fDone =>
        \A field \in FilterFields :
            (OnlyTermIn(field) /\ IsPlainTerm(fTerms[field][1]))
                => (fPasses <=>
                       IF field = "levelFilter"
                       THEN FieldValue(field) = TermBody(fTerms[field][1])
                       ELSE includes(FieldValue(field), TermBody(fTerms[field][1])))

\* C20 witness: the severity term Err, a substring of the record's severity in
\* another case, does not let the record through.
C20_Witness ==
    /\ fDone /\ ~fPasses
    /\ OnlyTermIn("levelFilter")
    /\ fTerms.levelFilter[1] = <<"E","r","r">>
    /\ FieldValue("levelFilter") = <<"E","R","R","O","R">>
    /\ fLog.level # <<"E","R","R","O","R">>

IsBlankFilter(filter) == \A i \in 1..Len(filter) : filter[i] \in {" ", ","}

\* C21: a filter string that is empty or holds only commas and whitespace
\* imposes no constraint; the record passes exactly when it passes the other
\* fields' filters.
C21_BlankFilterPassesEveryRecord ==
    fDone =>
        \A field \in FilterFields :
            IsBlankFilter(joinTerms(fTerms[field]))
                => (fPasses <=> \A f \in FilterFields \ {field} :
                                   passesLogFilters(fLog, OnlyField(f)))

\* C21 witness: the level filter " , " holds no term, and a record of an
\* unknown severity passes it together with a category filter that it matches.
C21_Witness ==
    /\ fDone /\ fPasses
    /\ fTerms.levelFilter = << <<" ">>, <<" ">> >>
    /\ fTerms.categoryFilter = << <<"t","e","m","p">> >>
    /\ fTerms.messageFilter = << <<" ">> >>
    /\ fLog.level = <<"B","o","g","u","s">>

HasPrefix(s, prefix) == Len(s) >= Len(prefix) /\ SubSeq(s, 1, Len(prefix)) = prefix

\* C22: the category term Log* lets through every record whose category
\* starts with Log.
C22_TrailingWildcardMatchesPrefix ==
    (fDone /\ OnlyTermIn("categoryFilter")
           /\ fTerms.categoryFilter[1] = <<"L","o","g","*">>
           /\ HasPrefix(fLog.category, <<"L","o","g">>))
        => fPasses

(***************************************************************************)
(* Claims about what the decoder hands to the store.                       *)
(***************************************************************************)
\* the names of the top-level members of a parsed object whose value is a string
RECURSIVE stringMembers(_, _)
stringMembers(s, i) ==
    LET afterKey   == parseString(s, i)
        key        == SubSeq(s, i + 1, afterKey - 2)
        afterValue == parseValue(s, afterKey + 1)
        rest       == IF s[afterValue] = "," THEN stringMembers(s, afterValue + 1) ELSE {}
    IN  IF s[afterKey + 1] = "\"" THEN {key} \cup rest ELSE rest

RequiredFields ==
    { <<"d","a","t","e">>, <<"l","e","v","e","l">>,
      <<"c","a","t","e","g","o","r","y">>, <<"m","e","s","s","a","g","e">> }

IsCompleteRecord(frame) ==
    /\ Len(frame) > 2
    /\ RequiredFields \subseteq stringMembers(frame, 2)

\* C23: a frame that parses as JSON but lacks a required field, or holds a
\* non-string value for one, is never handed to addLogCallback (which stores
\* every record it is given).
C23_IncompleteRecordsAreDiscarded ==
    \A k \in 1..Len(added) : IsCompleteRecord(added[k])

\* the length of the longest segment the client sends in this stream
LongestSegment ==
    IF segments = <<>> THEN 0
    ELSE CHOOSE n \in { Len(segments[i].bytes) : i \in 1..Len(segments) } :
             \A i \in 1..Len(segments) : Len(segments[i].bytes) <= n

\* C25: the decode buffer of a connection stays capped for any inbound byte
\* stream: it never holds more than one pending frame and the bytes that
\* precede it, that is, more than twice the longest segment the client sends.
C25_DecodeBufferStaysCapped ==
    Len(buffer) <= 2 * LongestSegment

(***************************************************************************)
(* Claims about the pause state.                                           *)
(***************************************************************************)
\* C24: each togglePauseState call flips the pause state exactly once:
\* starting Live, the viewer is Paused after n toggles exactly when n is odd,
\* whatever ingests, filter changes and clears run in between.
C24_PausedIffOddNumberOfToggles ==
    isPaused <=> (steps.toggles % 2 = 1)

\* C24 witness: two toggles, another control operation and ingests in between
\* leave the viewer Live.
C24_Witness ==
    /\ steps.toggles = 2 /\ ~isPaused
    /\ steps.ops = 0
    /\ steps.ingest < MaxIngest
    /\ lastOp.op = "addLog"

(***************************************************************************)
(* LogServerManager: start, stop and restart of the TCP server, with the   *)
(* asynchronous callbacks of net.Server and net.Socket as steps of their   *)
(* own.  A server instance is numbered by its position in `instances`, a   *)
(* socket by its position in `sockets`.                                    *)
(***************************************************************************)
MaxCalls == 3
MaxConnections == 2
MaxChunks == 2
MaxServerErrors == 1

\* the ports the configuration names
Ports == {9876, 9877}

\* chunks a client writes: a whole frame, and its two halves
Chunks ==
    { <<"{","\"","a","\"",":","\"","a","\"","}">>,
      <<"{","\"","a","\"",":">>,
      <<"\"","a","\"","}">> }

\* what server.close() calls back into: nothing yet, the start of a new
\* instance (start), or the completion of stop
NoCallback == [k |-> "none", port |-> 0]
StartCallback(port) == [k |-> "start", port |-> port]
StopCallback == [k |-> "stop", port |-> 0]

\* net.createServer(...) followed by listen(port, ...): the instance waits to listen
createServer(insts, port) ==
    Append(insts, [port |-> port, state |-> "binding", callback |-> NoCallback])

\* socket.destroy() for every socket of this.activeConnections
destroyConnections(socks, conns) ==
    [s \in 1..Len(socks) |->
        IF s \in conns THEN [socks[s] EXCEPT !.state = "destroyed"] ELSE socks[s]]

\* mutant: the 'error' handler of one socket forgets every connection
deleteConnectionClearsAll(conns, s) == {}

\* this.activeConnections.delete(socket)
deleteConnection(conns, s) == conns \ {s}

\* stopInternal(callback): the fields it leaves, and whether it has called
\* back at once (there was no server)
stopInternal(callback) ==
    IF server # 0
    THEN [server            |-> 0,
          currentPort       |-> 0,
          activeConnections |-> {},
          sockets           |-> destroyConnections(sockets, activeConnections),
          instances         |-> [instances EXCEPT ![server].state = "closing",
                                                  ![server].callback = callback],
          calledBack        |-> FALSE]
    ELSE [server            |-> server,
          currentPort       |-> currentPort,
          activeConnections |-> activeConnections,
          sockets           |-> sockets,
          instances         |-> instances,
          calledBack        |-> TRUE]

\* start(port), under the name it was called by
startAs(op, port) ==
    /\ srvSteps.calls > 0
    /\ srvSteps' = [srvSteps EXCEPT !.calls = @ - 1]
    /\ IF isServerRestarting
       THEN /\ srvOp' = [op |-> op, port |-> port, outcome |-> "rejected"]
            /\ UNCHANGED <<server, currentPort, isServerRestarting, activeConnections,
                           instances, sockets>>
       ELSE IF server # 0 /\ currentPort = port
       THEN /\ srvOp' = [op |-> op, port |-> port, outcome |-> "alreadyRunning"]
            /\ UNCHANGED <<server, currentPort, isServerRestarting, activeConnections,
                           instances, sockets>>
       ELSE LET out == stopInternal(StartCallback(port))
            IN  /\ isServerRestarting' = TRUE
                /\ server' = out.server
                /\ currentPort' = out.currentPort
                /\ activeConnections' = out.activeConnections
                /\ sockets' = out.sockets
                /\ instances' = IF server # 0 THEN out.instances
                                ELSE createServer(instances, port)
                /\ srvOp' = [op |-> op, port |-> port, outcome |-> "accepted"]
    /\ UNCHANGED <<viewerVars, decoderVars, filterVars, formatVars, pauseVars>>

\* start(port)
start(port) == startAs("start", port)

\* restart(newPort)
restart(newPort) == startAs("restart", newPort)

\* stop(callback)
stop ==
    LET out == stopInternal(StopCallback)
    IN  /\ srvSteps.calls > 0
        /\ srvSteps' = [srvSteps EXCEPT !.calls = @ - 1]
        /\ isServerRestarting' = ~out.calledBack
        /\ server' = out.server
        /\ currentPort' = out.currentPort
        /\ activeConnections' = out.activeConnections
        /\ sockets' = out.sockets
        /\ instances' = out.instances
        /\ srvOp' = [op |-> "stop", port |-> 0,
                     outcome |-> IF out.calledBack THEN "noServer" ELSE "closing"]
        /\ UNCHANGED <<viewerVars, decoderVars, filterVars, formatVars, pauseVars>>

\* the port of instance i is held by another instance that listens
PortInUse(i) ==
    \E j \in 1..Len(instances) :
        j # i /\ instances[j].state = "listening" /\ instances[j].port = instances[i].port

\* the callback of newServerInstance.listen(port, ...)
onListening(i) ==
    /\ instances[i].state = "binding"
    /\ ~PortInUse(i)
    /\ instances' = [instances EXCEPT ![i].state = "listening"]
    /\ server' = i
    /\ currentPort' = instances[i].port
    /\ isServerRestarting' = FALSE
    /\ srvOp' = [op |-> "onListening", port |-> instances[i].port, outcome |-> "listening"]
    /\ UNCHANGED <<activeConnections, sockets, srvSteps>>
    /\ UNCHANGED <<viewerVars, decoderVars, filterVars, formatVars, pauseVars>>

\* mutant: the 'error' handler leaves the guard as it is
restartingAfterServerErrorKept(restarting) == restarting

\* this.isServerRestarting = false at the end of the 'error' handler
restartingAfterServerError(restarting) == FALSE

\* newServerInstance.on('error', ...): the port cannot be bound (the instance
\* never listens), or accepting a connection fails (the instance goes on listening)
onServerError(i) ==
    /\ instances[i].state \in {"binding", "listening"}
    /\ \/ /\ srvSteps.errors > 0
          /\ srvSteps' = [srvSteps EXCEPT !.errors = @ - 1]
       \/ /\ instances[i].state = "binding" /\ PortInUse(i)
          /\ UNCHANGED srvSteps
    /\ instances' = [instances EXCEPT
                        ![i].state = IF @ = "binding" THEN "failed" ELSE @]
    /\ server' = IF server = i THEN 0 ELSE server
    /\ currentPort' = IF server = i THEN 0 ELSE currentPort
    /\ isServerRestarting' = restartingAfterServerError(isServerRestarting)
    /\ srvOp' = [op |-> "onServerError", port |-> instances[i].port,
                 outcome |-> IF instances[i].state = "binding"
                             THEN "listenFailed" ELSE "acceptFailed"]
    /\ UNCHANGED <<activeConnections, sockets>>
    /\ UNCHANGED <<viewerVars, decoderVars, filterVars, formatVars, pauseVars>>

\* the callback of serverToClose.close(...), which runs stopInternal's callback
onServerClosed(i) ==
    /\ instances[i].state = "closing"
    /\ \A s \in 1..Len(sockets) : sockets[s].instance = i => sockets[s].state # "open"
    /\ instances' =
           LET closed == [instances EXCEPT ![i].state = "closed"]
           IN  IF instances[i].callback.k = "start"
               THEN createServer(closed, instances[i].callback.port)
               ELSE closed
    /\ isServerRestarting' =
           IF instances[i].callback.k = "stop" THEN FALSE ELSE isServerRestarting
    /\ srvOp' = [op |-> "onServerClosed", port |-> instances[i].port,
                 outcome |-> instances[i].callback.k]
    /\ UNCHANGED <<server, currentPort, activeConnections, sockets, srvSteps>>
    /\ UNCHANGED <<viewerVars, decoderVars, filterVars, formatVars, pauseVars>>

\* the connection listener of net.createServer: a client has connected
onConnection(i) ==
    /\ srvSteps.connections > 0
    /\ instances[i].state = "listening"
    /\ srvSteps' = [srvSteps EXCEPT !.connections = @ - 1]
    /\ sockets' = Append(sockets, [instance |-> i, state |-> "open", buffer |-> <<>>,
                                   received |-> <<>>, frames |-> <<>>])
    /\ activeConnections' = activeConnections \cup {Len(sockets) + 1}
    /\ srvOp' = [op |-> "onConnection", port |-> instances[i].port,
                 outcome |-> "connected"]
    /\ UNCHANGED <<server, currentPort, isServerRestarting, instances>>
    /\ UNCHANGED <<viewerVars, decoderVars, filterVars, formatVars, pauseVars>>

\* socket.on('close', ...): the client has closed the connection
onSocketClose(s) ==
    /\ sockets[s].state = "open"
    /\ sockets' = [sockets EXCEPT ![s].state = "closed"]
    /\ activeConnections' = deleteConnection(activeConnections, s)
    /\ srvOp' = [op |-> "onSocketClose", socket |-> s, outcome |-> "closed"]
    /\ UNCHANGED <<server, currentPort, isServerRestarting, instances, srvSteps>>
    /\ UNCHANGED <<viewerVars, decoderVars, filterVars, formatVars, pauseVars>>

\* socket.on('error', ...), after which the socket is closed
onSocketError(s) ==
    /\ sockets[s].state = "open"
    /\ srvSteps.errors > 0
    /\ srvSteps' = [srvSteps EXCEPT !.errors = @ - 1]
    /\ sockets' = [sockets EXCEPT ![s].state = "error"]
    /\ activeConnections' = deleteConnection(activeConnections, s)
    /\ srvOp' = [op |-> "onSocketError", socket |-> s, outcome |-> "closed"]
    /\ UNCHANGED <<server, currentPort, isServerRestarting, instances>>
    /\ UNCHANGED <<viewerVars, decoderVars, filterVars, formatVars, pauseVars>>

\* socket.on('data', ...) of connection s, with the `buffer` of its closure
onSocketData(s, data) ==
    LET out == drain(sockets[s].buffer \o toString(data), sockets[s].frames, <<>>)
    IN  /\ sockets[s].state = "open"
        /\ srvSteps.chunks > 0
        /\ srvSteps' = [srvSteps EXCEPT !.chunks = @ - 1]
        /\ sockets' = [sockets EXCEPT ![s].buffer = out.buffer,
                                      ![s].frames = out.added,
                                      ![s].received = @ \o data]
        /\ srvOp' = [op |-> "onSocketData", socket |-> s, outcome |-> "decoded"]
        /\ UNCHANGED <<server, currentPort, isServerRestarting, activeConnections,
                       instances>>
        /\ UNCHANGED <<viewerVars, decoderVars, filterVars, formatVars, pauseVars>>

InitServer ==
    /\ server = 0
    /\ currentPort = 0
    /\ isServerRestarting = FALSE
    /\ activeConnections = {}
    /\ instances = <<>>
    /\ sockets = <<>>
    /\ srvOp = [op |-> "constructor", port |-> 0, outcome |-> "constructed"]
    /\ srvSteps = [calls |-> MaxCalls, connections |-> MaxConnections,
                   chunks |-> MaxChunks, errors |-> MaxServerErrors]
    /\ ViewerIdle
    /\ DecoderIdle
    /\ FilterIdle
    /\ FormatIdle
    /\ PauseIdle

NextServer ==
    \/ \E port \in Ports : start(port)
    \/ \E newPort \in Ports : restart(newPort)
    \/ stop
    \/ \E i \in 1..Len(instances) : onListening(i)
    \/ \E i \in 1..Len(instances) : onServerError(i)
    \/ \E i \in 1..Len(instances) : onServerClosed(i)
    \/ \E i \in 1..Len(instances) : onConnection(i)
    \/ \E s \in 1..Len(sockets) : onSocketClose(s)
    \/ \E s \in 1..Len(sockets) : onSocketError(s)
    \/ \E s \in 1..Len(sockets), data \in Chunks : onSocketData(s, data)

SpecServer == InitServer /\ [][NextServer]_vars

(***************************************************************************)
(* Claims about the listener and its connections.                          *)
(***************************************************************************)
\* the step is a call of the manager's method op
Called(op) == srvOp'.op = op /\ srvSteps'.calls # srvSteps.calls

\* C26: a stop, and a restart that is carried out, destroys every tracked
\* connection at once and leaves the active-connection set empty.
C26_TeardownDestroysEveryConnection ==
    [][(Called("stop") \/ (Called("restart") /\ srvOp'.outcome = "accepted"))
          => /\ activeConnections' = {}
             /\ \A s \in activeConnections : sockets'[s].state # "open"]_vars

\* the frames a connection's bytes hold when they are decoded on their own
decodedAlone(bytes) == drain(toString(bytes), <<>>, <<>>).added

\* C27: a socket error on one connection removes only that connection from the
\* active set and touches no other connection; every connection decodes its
\* own bytes with its own buffer, whatever happens on the others.
C27_SocketErrorIsolatedToItsConnection ==
    [][/\ (srvOp'.op = "onSocketError" /\ srvSteps'.errors # srvSteps.errors)
            => /\ activeConnections' = activeConnections \ {srvOp'.socket}
               /\ \A t \in 1..Len(sockets) :
                      t # srvOp'.socket => sockets'[t] = sockets[t]
       /\ \A s \in 1..Len(sockets') :
              sockets'[s].frames = decodedAlone(sockets'[s].received)]_vars

\* C27 witness: the first connection has failed with half a frame buffered; the
\* second is still tracked and its frame is decoded.
C27_Witness ==
    /\ Len(sockets) = 2
    /\ sockets[1].state = "error" /\ sockets[1].buffer # <<>>
    /\ activeConnections = {2}
    /\ srvOp.op = "onSocketData" /\ srvOp.socket = 2
    /\ sockets[2].buffer = <<>>
    /\ Len(sockets[2].frames) = 1

\* the step is the 'error' handler of an instance whose port could not be bound
ListenFailed ==
    /\ srvOp'.op = "onServerError" /\ srvOp'.outcome = "listenFailed"
    /\ instances' # instances

Listening(insts) == { i \in 1..Len(insts) : insts[i].state = "listening" }

\* C28: when the port cannot be bound, no server is left running, no new
\* listen attempt is made on its own, and the in-progress guard is released so
\* that a later request to apply a port is accepted.
C28_BindFailureLeavesNoServerAndReleasesGuard ==
    [][ListenFailed
          => /\ server' = 0 /\ Listening(instances') = {}
             /\ Len(instances') = Len(instances)
             /\ ~isServerRestarting']_vars

(***************************************************************************)
(* Claims about export-as-text.                                            *)
(***************************************************************************)
\* the positions in the store of the records that pass the current filter
PassingPositions == { i \in 1..Len(logs) : passesLogFilters(logs[i], Filters) }

\* the limit most recent of them
MostRecent(limit) ==
    { i \in PassingPositions : Cardinality({ j \in PassingPositions : j > i }) < limit }

\* the k-th position of a set of positions, in arrival order
Nth(positions, k) ==
    CHOOSE i \in positions : Cardinality({ j \in positions : j <= i }) = k

\* <timestamp> [<severity>] [<category>] <message>
TextLine(r) ==
    Digits(r.date) \o <<" ">> \o <<"[">> \o r.level \o <<"]">> \o <<" ">>
        \o <<"[">> \o r.category \o <<"]">> \o <<" ">> \o r.message

\* C29: export-as-text returns exactly the most recent `limit` records that
\* pass the current filter, in arrival order, one per line, each in the form
\* <timestamp> [<severity>] [<category>] <message>.
C29_ExportIsTheMostRecentFilteredRecords ==
    lastOp.op = "provideTextDocumentContent" =>
        LET exported == MostRecent(lastOp.limit)
        IN  IF exported = {}
            THEN textDocument = <<>>
            ELSE split(textDocument, "\n") =
                     [k \in 1..Cardinality(exported) |-> TextLine(logs[Nth(exported, k)])]

\* C29 witness: three records are stored, two of them pass the level filter,
\* and the export under limit 1 holds the later of the two only.
C29_Witness ==
    /\ lastOp.op = "provideTextDocumentContent" /\ lastOp.limit = 1
    /\ Len(logs) = 3
    /\ Cardinality(PassingPositions) = 2
    /\ Len(split(textDocument, "\n")) = 1

(***************************************************************************)
(* The timestamp formatter on its own: formatDate in relative mode applied *)
(* to one timestamp and one clear time, both in milliseconds.              *)
(***************************************************************************)
\* the record's timestamp
FormatDates ==
    { 0, 1, 999, 1000, 59999, 60000, 61001, 3599999, 3600000, 3661001,
      86399999, 86400000, 90061001, 359999999, 360000000 }

\* the time of the last clear
FormatClearTimes == { 0, 1, 1000, 60000, 3600000 }

InitFormat ==
    /\ fmtDate \in FormatDates
    /\ fmtClear \in FormatClearTimes
    /\ fmtDone = FALSE
    /\ fmtText = <<>>
    /\ ViewerIdle
    /\ DecoderIdle
    /\ FilterIdle
    /\ ServerIdle
    /\ PauseIdle

\* a call of formatDate(originalDateString) with useRelativeTimestamps set
formatRelative ==
    /\ ~fmtDone
    /\ fmtDone' = TRUE
    /\ fmtText' = formatDate(fmtDate, TRUE, fmtClear)
    /\ UNCHANGED <<fmtDate, fmtClear>>
    /\ UNCHANGED <<viewerVars, decoderVars, filterVars, serverVars, pauseVars>>

NextFormat == formatRelative

SpecFormat == InitFormat /\ [][NextFormat]_vars

(***************************************************************************)
(* Claims about relative timestamps.                                       *)
(***************************************************************************)
IsDigits(s) == \A i \in 1..Len(s) : s[i] \in {"0","1","2","3","4","5","6","7","8","9"}

DigitValue(c) ==
    CASE c = "0" -> 0 [] c = "1" -> 1 [] c = "2" -> 2 [] c = "3" -> 3 [] c = "4" -> 4
      [] c = "5" -> 5 [] c = "6" -> 6 [] c = "7" -> 7 [] c = "8" -> 8 [] c = "9" -> 9

\* the number a string of decimal digits denotes
RECURSIVE NumberOf(_)
NumberOf(s) ==
    IF s = <<>> THEN 0 ELSE 10 * NumberOf(SubSeq(s, 1, Len(s) - 1)) + DigitValue(s[Len(s)])

\* C30: in relative mode the rendered time is +HH:MM:SS.mmm with two-digit
\* minutes and seconds below 60, three-digit milliseconds, hours of two or more
\* digits that do not wrap at 24, no sign but the leading plus, and
\* HH*3600000 + MM*60000 + SS*1000 + mmm = max(0, timestamp - resetEpoch).
C30_RelativeTimeDecomposesTheDifference ==
    fmtDone =>
        LET difference == IF fmtDate > fmtClear THEN fmtDate - fmtClear ELSE 0
            fields     == split(SubSeq(fmtText, 2, Len(fmtText)), ":")
            HH         == fields[1]
            MM         == fields[2]
            rest       == split(fields[3], ".")
            SS         == rest[1]
            mmm        == rest[2]
        IN  /\ fmtText # <<>> /\ fmtText[1] = "+"
            /\ Len(fields) = 3 /\ Len(rest) = 2
            /\ Len(HH) >= 2 /\ Len(MM) = 2 /\ Len(SS) = 2 /\ Len(mmm) = 3
            /\ IsDigits(HH) /\ IsDigits(MM) /\ IsDigits(SS) /\ IsDigits(mmm)
            /\ NumberOf(MM) < 60 /\ NumberOf(SS) < 60
            /\ NumberOf(HH) * 3600000 + NumberOf(MM) * 60000 + NumberOf(SS) * 1000
                   + NumberOf(mmm) = difference

\* C30 witness: 25 h 1 min 1 s 1 ms after the clear is rendered as +25:01:01.001.
C30_Witness ==
    /\ fmtDone
    /\ fmtDate - fmtClear = 90061001
    /\ fmtText = <<"+","2","5",":","0","1",":","0","1",".","0","0","1">>

(***************************************************************************)
(* Claims about a lowered maximum.                                         *)
(***************************************************************************)
\* C31: lowering the configured maximum below the record count removes no
\* record by itself, and after the next insertion the store holds at most the
\* new maximum.
C31_ShrinkTakesEffectOnNextInsertion ==
    [][/\ Ran("onDidChangeConfiguration") => logs' = logs
       /\ Ran("addLog") => Len(logs') <= MaxRecords']_vars

(***************************************************************************)
(* C33: set-filters with a partial spec changes only the filter strings    *)
(* that are supplied, which are stored trimmed, and leaves the other       *)
(* filter strings as they were.                                            *)
(***************************************************************************)
\* the string without the white space at its two ends
Stripped(s) ==
    LET inner == { i \in 1..Len(s) : ~IsSpace(s[i]) }
    IN  IF inner = {} THEN <<>>
        ELSE LET first == CHOOSE i \in inner : \A j \in inner : i <= j
                 last  == CHOOSE i \in inner : \A j \in inner : j <= i
             IN  SubSeq(s, first, last)

StoredAfter(supplied, before) ==
    IF supplied = Undefined THEN before ELSE Stripped(supplied)

C33_PartialSpecChangesOnlySuppliedStrings ==
    [][Ran("setFiltersForTest") =>
           /\ levelFilter'    = StoredAfter(lastOp'.level, levelFilter)
           /\ categoryFilter' = StoredAfter(lastOp'.category, categoryFilter)
           /\ messageFilter'  = StoredAfter(lastOp'.message, messageFilter)]_vars

\* a category with white space was supplied after a level had been set:
\* the level is still there and the category is stored trimmed
C33_Witness ==
    /\ lastOp.op = "setFiltersForTest"
    /\ lastOp.level = Undefined
    /\ lastOp.category = <<" ","!","l","o","g","t","e","m","p">>
    /\ levelFilter = <<"E","r","r","o","r">>
    /\ categoryFilter = <<"!","l","o","g","t","e","m","p">>

(***************************************************************************)
(* C32: applying the same filter spec twice in a row through set-filters   *)
(* gives the same filter strings and the same visible set as applying it   *)
(* once.                                                                   *)
(***************************************************************************)
\* what get-displayed-records answers for the given fields
VisibleSet(ls, lf, cf, mf, paused, snapshot, relative, clearTime) ==
    IF paused
    THEN snapshot
    ELSE formatAll(filterLogs(ls, [levelFilter |-> lf, categoryFilter |-> cf,
                                   messageFilter |-> mf]),
                   relative, clearTime)

C32_SetFiltersTwiceIsSetFiltersOnce ==
    [][(Ran("setFiltersForTest") /\ lastOp'.again) =>
           /\ levelFilter' = levelFilter
           /\ categoryFilter' = categoryFilter
           /\ messageFilter' = messageFilter
           /\ VisibleSet(logs', levelFilter', categoryFilter', messageFilter',
                         isPaused', displayedLogsOnPause', useRelativeTimestamps',
                         lastClearTime')
                  = VisibleSet(logs, levelFilter, categoryFilter, messageFilter,
                               isPaused, displayedLogsOnPause,
                               useRelativeTimestamps, lastClearTime)
           /\ (view => sent' = sent)]_vars

\* the same spec was applied twice to a store of which it hides a record
C32_Witness ==
    /\ lastOp.op = "setFiltersForTest"
    /\ lastOp.again
    /\ view
    /\ levelFilter = <<"E","r","r","o","r">>
    /\ getDisplayedLogEntriesForTest # <<>>
    /\ Len(getDisplayedLogEntriesForTest) < Len(logs)

C37_FrozenCountIsSnapshotLength ==
    isPaused => lastShownCountWhenPaused = Len(displayedLogsOnPause)

(***************************************************************************)
(* PauseManager: the pause controller with its snapshot and frozen count.  *)
(***************************************************************************)
MaxPauseCalls == 5      \* PauseManager methods called in one behaviour

\* the lists a capture callback returns: formatted entries of the records
\* the viewer showed at the toggle
CapturedLists ==
    LET shown == [k \in LogKinds |-> formatEntry(incoming(k, 1), FALSE, 0)]
    IN  {<<>>} \cup { <<shown[k]>> : k \in LogKinds }
               \cup { <<shown[k], shown[l]>> : k, l \in LogKinds }

\* the argument captureDisplayedLogsCallback: omitted, or a function that
\* returns one of the lists
CaptureCallbacks ==
    {[given |-> FALSE, result |-> <<>>]}
        \cup { [given |-> TRUE, result |-> l] : l \in CapturedLists }

\* the counts a caller hands to updateLastShownCountIfPaused
ShownCounts == {0, 1}

\* mutant: resuming keeps the stored snapshot
displayedLogsAfterToggleKept(nowPaused, callback, old) ==
    IF nowPaused
    THEN IF callback.given THEN callback.result ELSE <<>>
    ELSE old

\* this._displayedLogsOnPause after toggleState has flipped the flag
displayedLogsAfterToggle(nowPaused, callback, old) ==
    IF nowPaused
    THEN IF callback.given THEN callback.result ELSE <<>>
    ELSE <<>>

\* this._lastShownCountWhenPaused after toggleState has flipped the flag
lastShownCountAfterToggle(nowPaused, callback) ==
    IF nowPaused
    THEN IF callback.given THEN Len(callback.result) ELSE 0
    ELSE UndefinedCount

\* getDisplayedLogs()
PauseManager_getDisplayedLogs ==
    IF pmIsPaused THEN pmDisplayedLogsOnPause ELSE <<>>

\* getLastShownCount()
PauseManager_getLastShownCount ==
    IF pmIsPaused THEN pmLastShownCountWhenPaused ELSE UndefinedCount

\* toggleState(captureDisplayedLogsCallback?)
PauseManager_toggleState(callback) ==
    LET nowPaused == ~pmIsPaused
        invoked   == IF nowPaused /\ callback.given THEN 1 ELSE 0
    IN  /\ pmSteps.calls < MaxPauseCalls
        /\ pmIsPaused' = nowPaused
        /\ pmDisplayedLogsOnPause' =
               displayedLogsAfterToggle(nowPaused, callback, pmDisplayedLogsOnPause)
        /\ pmLastShownCountWhenPaused' = lastShownCountAfterToggle(nowPaused, callback)
        /\ pmOp' = [op |-> "toggleState", callback |-> callback]
        /\ pmSteps' = [calls |-> pmSteps.calls + 1,
                       captures |-> pmSteps.captures + invoked]
        /\ UNCHANGED <<viewerVars, decoderVars, filterVars, formatVars, serverVars>>

\* updateLastShownCountIfPaused(count)
PauseManager_updateLastShownCountIfPaused(count) ==
    /\ pmSteps.calls < MaxPauseCalls
    /\ pmLastShownCountWhenPaused' =
           IF pmIsPaused THEN count ELSE pmLastShownCountWhenPaused
    /\ pmOp' = [op |-> "updateLastShownCountIfPaused", count |-> count]
    /\ pmSteps' = [pmSteps EXCEPT !.calls = @ + 1]
    /\ UNCHANGED <<pmIsPaused, pmDisplayedLogsOnPause>>
    /\ UNCHANGED <<viewerVars, decoderVars, filterVars, formatVars, serverVars>>

\* resetForWebviewClear()
PauseManager_resetForWebviewClear ==
    /\ pmSteps.calls < MaxPauseCalls
    /\ pmLastShownCountWhenPaused' =
           IF pmIsPaused THEN 0 ELSE pmLastShownCountWhenPaused
    /\ pmDisplayedLogsOnPause' =
           IF pmIsPaused THEN <<>> ELSE pmDisplayedLogsOnPause
    /\ pmOp' = [op |-> "resetForWebviewClear"]
    /\ pmSteps' = [pmSteps EXCEPT !.calls = @ + 1]
    /\ UNCHANGED pmIsPaused
    /\ UNCHANGED <<viewerVars, decoderVars, filterVars, formatVars, serverVars>>

InitPause ==
    /\ ViewerIdle
    /\ DecoderIdle
    /\ FilterIdle
    /\ FormatIdle
    /\ ServerIdle
    /\ PauseIdle

NextPause ==
    \/ \E callback \in CaptureCallbacks : PauseManager_toggleState(callback)
    \/ \E count \in ShownCounts : PauseManager_updateLastShownCountIfPaused(count)
    \/ PauseManager_resetForWebviewClear

SpecPause == InitPause /\ [][NextPause]_vars

(***************************************************************************)
(* C34: a pause snapshot exists only while Paused.  It is captured exactly *)
(* once on each Live-to-Paused transition and discarded on resume, and     *)
(* while Live the pause controller reports an empty displayed list and an  *)
(* undefined frozen count.                                                 *)
(***************************************************************************)
PausedBy(op) == pmOp'.op = op /\ pmSteps'.calls # pmSteps.calls

C34_SnapshotExistsOnlyWhilePaused ==
    [][/\ ~pmIsPaused' =>
              /\ pmDisplayedLogsOnPause' = <<>>
              /\ pmLastShownCountWhenPaused' = UndefinedCount
              /\ PauseManager_getDisplayedLogs' = <<>>
              /\ PauseManager_getLastShownCount' = UndefinedCount
       /\ (~pmIsPaused /\ pmIsPaused' /\ pmOp'.callback.given) =>
              /\ pmSteps'.captures = pmSteps.captures + 1
              /\ pmDisplayedLogsOnPause' = pmOp'.callback.result
              /\ pmLastShownCountWhenPaused' = Len(pmOp'.callback.result)
       /\ ~(~pmIsPaused /\ pmIsPaused') =>
              /\ pmSteps'.captures = pmSteps.captures
              /\ (pmIsPaused' /\ ~PausedBy("resetForWebviewClear")) =>
                     pmDisplayedLogsOnPause' = pmDisplayedLogsOnPause]_vars

\* the controller is Live again after one pause: of the two toggles, the
\* first called its capture function and the second, handed one that would
\* return a record, did not
C34_Witness ==
    /\ ~pmIsPaused
    /\ pmOp.op = "toggleState"
    /\ pmOp.callback.given
    /\ pmOp.callback.result # <<>>
    /\ pmSteps.captures = 1
    /\ pmSteps.calls = 2
    /\ pmDisplayedLogsOnPause = <<>>

(***************************************************************************)
(* The webview: the list `allLogs` its message listener keeps.             *)
(***************************************************************************)
\* window.addEventListener('message', ...): allLogs after one message
onMessage(allLogs, message) ==
    CASE message.command = "addLogEntry"      -> Append(allLogs, message.logEntry)
      [] message.command = "removeOldestLogs" ->
             SubSeq(allLogs, message.count + 1, Len(allLogs))
      [] message.command = "setLogs"          -> message.logs
      [] OTHER                                -> allLogs

\* allLogs after the messages of one handler, in the order they were posted
RECURSIVE onMessages(_, _)
onMessages(allLogs, messages) ==
    IF messages = <<>> THEN allLogs
    ELSE onMessages(onMessage(allLogs, Head(messages)), Tail(messages))

(***************************************************************************)
(* C35: while Live with a sink attached, after every ingest (also one that *)
(* evicts while a non-empty filter is active) the list held by the sink,   *)
(* obtained by applying the emitted setLogs, addLogEntry and               *)
(* removeOldestLogs instructions in order, equals the filtered contents of *)
(* the store in store order.  Stated for the ingest that follows a full    *)
(* replace, where the list the sink holds before the ingest is known.      *)
(***************************************************************************)
HasSetLogs(messages) ==
    \E i \in 1..Len(messages) : messages[i].command = "setLogs"

C35_SinkListIsTheFilteredStore ==
    [][(Ran("addLog") /\ view /\ ~isPaused /\ HasSetLogs(sent)) =>
           onMessages(onMessages(<<>>, sent), sent')
               = VisibleSet(logs', levelFilter', categoryFilter', messageFilter',
                            FALSE, <<>>, useRelativeTimestamps', lastClearTime')]_vars

(***************************************************************************)
(* C38: at any time at most one server instance is listening or waiting to *)
(* listen: a start or restart requested while another start, restart or    *)
(* stop is in progress creates no further instance, under every            *)
(* interleaving of the calls and their listen and close callbacks.         *)
(***************************************************************************)
LiveInstances(insts) ==
    { i \in 1..Len(insts) : insts[i].state \in {"binding", "listening"} }

C38_AtMostOneInstanceListensOrBinds ==
    Cardinality(LiveInstances(instances)) <= 1

(***************************************************************************)
(* C39: once stop() has invoked its completion callback, no server         *)
(* instance is listening and none becomes listening afterwards unless      *)
(* start is called again, also when stop is requested while a start or a   *)
(* port switch is in progress.                                             *)
(***************************************************************************)
\* this step runs the completion callback of stop(): at once when there is no
\* server, or from the close callback of the server that stop() closed
StopCalledBack ==
    \/ Called("stop") /\ srvOp'.outcome = "noServer"
    \/ /\ srvOp'.op = "onServerClosed"
       /\ srvOp'.outcome = "stop"
       /\ instances' # instances

\* the instances that listen, or will without a further call: those waiting
\* for their listen callback, and those whose close callback starts a server
ListeningSoonOrNow(insts) ==
    LiveInstances(insts)
        \cup { i \in 1..Len(insts) :
                   insts[i].state = "closing" /\ insts[i].callback.k = "start" }

C39_NothingListensAfterStopCompletes ==
    [][StopCalledBack => ListeningSoonOrNow(instances') = {}]_vars

(***************************************************************************)
(* The server manager under the scheduling of the event loop: a pending    *)
(* listen ends, with the 'listening' callback or with an 'error' event     *)
(* when the port is taken, and the callback of close() runs once the       *)
(* server has no open connection left.  Calls by the extension, clients    *)
(* and other errors may or may not happen.                                 *)
(***************************************************************************)
\* the pending listen of instance i ends
listenSettles(i) ==
    \/ onListening(i)
    \/ instances[i].state = "binding" /\ PortInUse(i) /\ onServerError(i)

SpecServerFair ==
    /\ SpecServer
    /\ \A i \in 1..MaxCalls : WF_vars(i \in 1..Len(instances) /\ listenSettles(i))
    /\ \A i \in 1..MaxCalls : WF_vars(i \in 1..Len(instances) /\ onServerClosed(i))

====
